---------------------------- MODULE Spec2Model ----------------------------
(***************************************************************************)
(* A model of noted: the markdown codec of notes.py, the index store       *)
(* adapter of db.py, the directory scan of searches.py and the debounce    *)
(* watcher of watcher.py.                                                  *)
(*                                                                         *)
(* Text is modelled character by character: a Python str is a sequence of  *)
(* one-character strings, so that strip, split, replace, startswith and    *)
(* the metadata regular expressions are computed as the code computes      *)
(* them.                                                                   *)
(***************************************************************************)
EXTENDS Integers, Sequences, FiniteSets, TLC

VARIABLES
    note,       \* codec: the Note handed to to_markdown
    markdown,   \* codec: the text to_markdown returned
    decoded,    \* codec: the Note create_note_from_markdown returned
    cpc,        \* codec: "built" -> "encoded" -> "decoded"
    db,         \* index: the notes, keywords, present and speakers tables
    ret,        \* the last call or step and what it returned or raised
    calls,      \* index: the add_note calls between their check and their insert
    files,      \* notes directory: file name -> mtime, 0 when there is no such file
    unreadable, \* notes directory: the names of the files that cannot be opened
    dirValid,   \* notes directory: the configured path exists and is a directory
    monitored,  \* watcher: MODIFIED_NOTES_TABLE, <<path, time>> in insertion order
    now,        \* the clock, in ticks
    wpc,        \* watcher process: "off" or "running"
    sweep,      \* watcher process: where its main loop is and the aged_notes
                \* it still has to handle
    spc         \* web server process: "stopped", "serving", "terminal_scan",
                \* "signalled" or "interrupt_scan"

codecVars == <<note, markdown, decoded, cpc>>

dbVars == <<db, ret, calls>>

syncVars == <<files, unreadable, dirValid, monitored, now, wpc, sweep, spc>>

vars == <<codecVars, dbVars, syncVars>>

-----------------------------------------------------------------------------
(* Python str operations on character sequences *)

NL == "\n"

Chars(s) == {s[i] : i \in 1..Len(s)}

Whitespace == {" ", "\n", "\t"}

RECURSIVE LStrip(_)
LStrip(s) ==
    IF s # <<>> /\ Head(s) \in Whitespace THEN LStrip(Tail(s)) ELSE s

RECURSIVE RStrip(_)
RStrip(s) ==
    IF s # <<>> /\ s[Len(s)] \in Whitespace
    THEN RStrip(SubSeq(s, 1, Len(s) - 1))
    ELSE s

Strip(s) == RStrip(LStrip(s))

StartsWith(s, p) ==
    Len(p) <= Len(s) /\ SubSeq(s, 1, Len(p)) = p

EndsWith(s, p) ==
    Len(p) <= Len(s) /\ SubSeq(s, Len(s) - Len(p) + 1, Len(s)) = p

\* s[k:] with a 0-based Python index k >= 0
From(s, k) == SubSeq(s, k + 1, Len(s))

\* s.split(c) for a one-character separator c
RECURSIVE SplitAcc(_, _, _, _)
SplitAcc(s, c, cur, acc) ==
    IF s = <<>> THEN Append(acc, cur)
    ELSE IF Head(s) = c THEN SplitAcc(Tail(s), c, <<>>, Append(acc, cur))
    ELSE SplitAcc(Tail(s), c, Append(cur, Head(s)), acc)

Split(s, c) == SplitAcc(s, c, <<>>, <<>>)

\* sep.join(items)
RECURSIVE Join(_, _)
Join(items, sep) ==
    IF items = <<>> THEN <<>>
    ELSE IF Len(items) = 1 THEN items[1]
    ELSE items[1] \o sep \o Join(Tail(items), sep)

\* s.replace(old, new): leftmost non-overlapping occurrences, old non-empty
RECURSIVE Replace(_, _, _)
Replace(s, old, new) ==
    IF s = <<>> THEN <<>>
    ELSE IF StartsWith(s, old) THEN new \o Replace(From(s, Len(old)), old, new)
    ELSE <<Head(s)>> \o Replace(Tail(s), old, new)

-----------------------------------------------------------------------------
(* notes.py: the metadata patterns and extract_match *)

META_OPEN == <<"<", "?">>
META_CLOSE == <<"?", ">">>
KEYWORD_WORD == <<"k", "e", "y", "w", "o", "r", "d">>
SPEAKER_WORD == <<"s", "p", "e", "a", "k", "e", "r">>
PRESENT_WORD == <<"p", "r", "e", "s", "e", "n", "t">>

\* The alternatives "word:" and, with pluralOk, "words:" of a pattern.
TagHeads(word, pluralOk) ==
    {word \o <<":">>} \cup (IF pluralOk THEN {word \o <<"s", ":">>} ELSE {})

\* re.compile(r"^<\?.*WORDs?:(.*)\?>$").match(line): the 1-based positions at
\* which the group may start, i.e. just after an occurrence of WORD: or WORDs:
\* that lies after the opening <? and leaves room for the closing ?>.
GroupStarts(line, word, pluralOk) ==
    {i + Len(h) : <<i, h>> \in
        {<<j, g>> \in (3..Len(line)) \X TagHeads(word, pluralOk) :
            /\ j + Len(g) - 1 <= Len(line) - 2
            /\ SubSeq(line, j, j + Len(g) - 1) = g}}

PatternMatches(line, word, pluralOk) ==
    /\ Len(line) >= 4
    /\ StartsWith(line, META_OPEN)
    /\ EndsWith(line, META_CLOSE)
    /\ GroupStarts(line, word, pluralOk) # {}

\* match.group(1): the first .* is greedy, so the last occurrence wins.
Group1(line, word, pluralOk) ==
    LET starts == GroupStarts(line, word, pluralOk)
        st == CHOOSE i \in starts : \A j \in starts : j <= i
    IN SubSeq(line, st, Len(line) - 2)

\* extract_match without .replace(", ", ","): a mutant of extract_match
extract_match_keeps_space(group) ==
    Split(Replace(Strip(group), <<";">>, <<",">>), ",")

\* extract_match
extract_match(group) ==
    Split(Replace(Replace(Strip(group), <<";">>, <<",">>), <<",", " ">>, <<",">>), ",")

-----------------------------------------------------------------------------
(* notes.py: Section and Note *)

\* Section.__init__
Section(header, data) == [header |-> header, data |-> Strip(data)]

\* Section.to_markdown
SectionToMarkdown(sec) ==
    <<"#", "#", " ">> \o sec.header \o <<NL, NL>> \o Strip(sec.data)

\* Note.__init__ as far as the codec reads it; sections is the dict, kept in
\* insertion order as a sequence of Sections with distinct headers.
NewNote(page_header, keywords, present, speakers) ==
    [page_header |-> page_header, keywords |-> keywords, present |-> present,
     speakers |-> speakers, sections |-> <<>>]

HasSection(sections, header) ==
    \E i \in 1..Len(sections) : sections[i].header = header

\* a dict assignment that moves an existing key to the end: a mutant of DictSet
DictSet_moves_last(sections, sec) ==
    Append(SelectSeq(sections, LAMBDA x : x.header # sec.header), sec)

\* self.sections[heading] = section : a dict assignment keeps the position of
\* an existing key and appends a new one
DictSet(sections, sec) ==
    IF HasSection(sections, sec.header)
    THEN [i \in 1..Len(sections) |->
            IF sections[i].header = sec.header THEN sec ELSE sections[i]]
    ELSE Append(sections, sec)

\* Note.create_section
create_section(n, heading, data) ==
    IF heading # <<>>
    THEN [n EXCEPT !.sections = DictSet(n.sections, Section(heading, data))]
    ELSE n

\* one "<? tag: v1, v2 ?>" line of to_markdown
MetaLine(word, values) ==
    <<"<", "?", " ">> \o word \o <<":", " ">> \o Join(values, <<",", " ">>)
        \o <<" ", "?", ">">>

RECURSIVE SectionLines(_)
SectionLines(sections) ==
    IF sections = <<>> THEN <<>>
    ELSE <<SectionToMarkdown(Head(sections)), <<>>>> \o SectionLines(Tail(sections))

\* Note.to_markdown
to_markdown(n) ==
    LET lines ==
            <<(<<"#", " ">> \o n.page_header \o <<NL>>)>>
            \o (IF Len(n.keywords) > 0
                THEN <<MetaLine(KEYWORD_WORD \o <<"s">>, n.keywords)>> ELSE <<>>)
            \o (IF Len(n.present) > 0
                THEN <<MetaLine(PRESENT_WORD, n.present)>> ELSE <<>>)
            \o (IF Len(n.speakers) > 0
                THEN <<MetaLine(SPEAKER_WORD \o <<"s">>, n.speakers)>> ELSE <<>>)
            \o << <<>> >>
            \o SectionLines(n.sections)
    IN Join(lines, <<NL>>)

\* parse_metadata with an assignment in place of .extend: a mutant of
\* parse_metadata
parse_metadata_replaces(n, line) ==
    IF PatternMatches(line, KEYWORD_WORD, TRUE)
    THEN [n EXCEPT !.keywords = extract_match(Group1(line, KEYWORD_WORD, TRUE))]
    ELSE IF PatternMatches(line, SPEAKER_WORD, TRUE)
    THEN [n EXCEPT !.speakers = extract_match(Group1(line, SPEAKER_WORD, TRUE))]
    ELSE IF PatternMatches(line, PRESENT_WORD, FALSE)
    THEN [n EXCEPT !.present = extract_match(Group1(line, PRESENT_WORD, FALSE))]
    ELSE n

\* parse_metadata of create_note_from_markdown
parse_metadata(n, line) ==
    IF PatternMatches(line, KEYWORD_WORD, TRUE)
    THEN [n EXCEPT !.keywords = @ \o extract_match(Group1(line, KEYWORD_WORD, TRUE))]
    ELSE IF PatternMatches(line, SPEAKER_WORD, TRUE)
    THEN [n EXCEPT !.speakers = @ \o extract_match(Group1(line, SPEAKER_WORD, TRUE))]
    ELSE IF PatternMatches(line, PRESENT_WORD, FALSE)
    THEN [n EXCEPT !.present = @ \o extract_match(Group1(line, PRESENT_WORD, FALSE))]
    ELSE n

\* the loop body of create_note_from_markdown; st holds the loop's locals
DecodeLine(st, this_line) ==
    LET line == Strip(this_line) IN
    IF StartsWith(line, <<"#", " ">>)
    THEN [st EXCEPT !.n.page_header = From(line, 2)]
    ELSE IF StartsWith(line, META_OPEN)
    THEN [st EXCEPT !.n = parse_metadata(st.n, line)]
    ELSE IF StartsWith(line, <<"#", "#", " ">>)
    THEN IF st.in_section
         THEN [st EXCEPT
                 !.n.sections = DictSet(@, Section(st.section_header,
                                                   Join(st.data, <<NL>>))),
                 !.section_header = Strip(From(line, 2)),
                 !.data = <<>>]
         ELSE [st EXCEPT !.in_section = TRUE,
                         !.section_header = Strip(From(line, 2)),
                         !.data = <<>>]
    ELSE IF st.in_section
    THEN [st EXCEPT !.data = Append(@, line)]
    ELSE st

RECURSIVE DecodeLines(_, _)
DecodeLines(st, lines) ==
    IF lines = <<>> THEN st
    ELSE DecodeLines(DecodeLine(st, Head(lines)), Tail(lines))

\* create_note_from_markdown without the test of section_header that guards
\* the last section: a mutant of create_note_from_markdown
create_note_from_markdown_unguarded(text) ==
    LET st0 == [n |-> NewNote(<<>>, <<>>, <<>>, <<>>), in_section |-> FALSE,
                data |-> <<>>, section_header |-> <<>>]
        st == DecodeLines(st0, Split(text, NL))
    IN [st.n EXCEPT !.sections =
            DictSet(@, Section(st.section_header, Join(st.data, <<NL>>)))]

\* Note.create_note_from_markdown
create_note_from_markdown(text) ==
    LET st0 == [n |-> NewNote(<<>>, <<>>, <<>>, <<>>), in_section |-> FALSE,
                data |-> <<>>, section_header |-> <<>>]
        st == DecodeLines(st0, Split(text, NL))
    IN IF st.section_header # <<>>
       THEN [st.n EXCEPT !.sections =
                DictSet(@, Section(st.section_header, Join(st.data, <<NL>>)))]
       ELSE st.n

-----------------------------------------------------------------------------
(* The codec's inputs: every Note whose varied part is built from at most   *)
(* MaxAtoms atoms, an atom being a character or one of the short character  *)
(* groups the decoder reacts to.                                            *)

MaxAtoms == 4

TitleAtoms == {<<"a">>, <<" ">>, <<NL>>, <<"#">>}
TagAtoms == {<<"a">>, <<"b">>, <<" ">>, <<",">>, <<";">>, KEYWORD_WORD \o <<":">>}
HeadAtoms == {<<"a">>, <<"b">>, <<" ">>}
DataAtoms == {<<"a">>, <<" ">>, <<NL>>, <<"#">>, META_OPEN}

\* the strings made of exactly k atoms
RECURSIVE StrN(_, _)
StrN(atoms, k) ==
    IF k = 0 THEN {<<>>}
    ELSE {a \o s : a \in atoms, s \in StrN(atoms, k - 1)}

\* the tag sequences that cost exactly b: a tag costs 1 plus its atoms
RECURSIVE TagLists(_)
TagLists(b) ==
    IF b = 0 THEN {<<>>}
    ELSE UNION {{<<t>> \o rest : t \in StrN(TagAtoms, l),
                                rest \in TagLists(b - 1 - l)} : l \in 0..(b - 1)}

TagTriples(b) ==
    UNION {TagLists(c[1]) \X TagLists(c[2]) \X TagLists(c[3]) :
             c \in {x \in (0..b) \X (0..b) \X (0..b) : x[1] + x[2] + x[3] <= b}}

\* the (heading, data) argument lists of create_section that cost exactly b:
\* a call costs the atoms of its heading (at least one) and of its data
RECURSIVE SectionArgs(_)
SectionArgs(b) ==
    IF b = 0 THEN {<<>>}
    ELSE UNION {{<<(<<h, d>>)>> \o rest : h \in StrN(HeadAtoms, c[1]),
                                        d \in StrN(DataAtoms, c[2]),
                                        rest \in SectionArgs(b - c[1] - c[2])} :
                  c \in {x \in (1..b) \X (0..b) : x[1] + x[2] <= b}}

RECURSIVE WithSections(_, _)
WithSections(n, args) ==
    IF args = <<>> THEN n
    ELSE WithSections(create_section(n, Head(args)[1], Head(args)[2]), Tail(args))

\* Each field is varied up to MaxAtoms with the others fixed, and all fields
\* are varied together up to half of it.
NoteInputs ==
    {NewNote(t, <<>>, <<>>, <<>>) :
        t \in UNION {StrN(TitleAtoms, k) : k \in 1..MaxAtoms}}
    \cup {NewNote(<<"t">>, x[1], x[2], x[3]) : x \in TagTriples(MaxAtoms)}
    \cup {WithSections(NewNote(<<"t">>, <<>>, <<>>, <<>>), args) :
            args \in UNION {SectionArgs(b) : b \in 0..MaxAtoms}}
    \cup {WithSections(NewNote(t, x[1], x[2], x[3]), args) :
            t \in StrN(TitleAtoms, 1), x \in TagTriples(MaxAtoms \div 2),
            args \in UNION {SectionArgs(b) : b \in 0..(MaxAtoms \div 2)}}

EmptyNote == NewNote(<<>>, <<>>, <<>>, <<>>)

\* The decoder's inputs: every text of at most MaxTextAtoms atoms, an atom
\* being a character or one of the character groups the decoder looks for.
MaxTextAtoms == 4

TextAtoms == {<<"a">>, <<" ">>, <<NL>>, <<",">>, <<"#", " ">>, <<"#", "#", " ">>,
              META_OPEN, META_CLOSE, KEYWORD_WORD \o <<":">>}

TextInputs == UNION {StrN(TextAtoms, k) : k \in 0..MaxTextAtoms}

\* The metadata lines given to the decoder: a tag word and a list of at most
\* MaxListAtoms names, separators and spaces.
MaxListAtoms == 5

ListAtoms == {<<"a">>, <<"b">>, <<" ">>, <<",">>, <<";">>}

TagLineInputs ==
    {META_OPEN \o <<" ">> \o word \o <<":">> \o list \o META_CLOSE :
        word \in {KEYWORD_WORD, SPEAKER_WORD, PRESENT_WORD},
        list \in UNION {StrN(ListAtoms, k) : k \in 1..MaxListAtoms}}

-----------------------------------------------------------------------------
(* The codec as a state machine: a Note is built, encoded, then decoded. *)

Encode ==
    /\ cpc = "built"
    /\ markdown' = to_markdown(note)
    /\ cpc' = "encoded"
    /\ UNCHANGED <<note, decoded, dbVars, syncVars>>

Decode ==
    /\ cpc = "encoded"
    /\ decoded' = create_note_from_markdown(markdown)
    /\ cpc' = "decoded"
    /\ UNCHANGED <<note, markdown, dbVars, syncVars>>

-----------------------------------------------------------------------------
(* db.py: the index store adapter.  A table is the sequence of its rows in  *)
(* rowid order, which is the order SQLite returns them in when a SELECT has *)
(* no ORDER BY.                                                             *)

EmptyDb == [notes |-> <<>>, keywords |-> <<>>, present |-> <<>>, speakers |-> <<>>]

\* a Note with its filename and timestamp attributes
WithFile(n, filename, timestamp) ==
    [filename |-> filename, timestamp |-> timestamp,
     page_header |-> n.page_header, keywords |-> n.keywords,
     present |-> n.present, speakers |-> n.speakers, sections |-> n.sections]

\* the next INTEGER PRIMARY KEY of a table
NextId(table) ==
    IF table = <<>> THEN 1
    ELSE 1 + (CHOOSE m \in {table[i].id : i \in 1..Len(table)} :
                \A i \in 1..Len(table) : table[i].id <= m)

\* already_stored that compares the filename alone: a mutant of already_stored
already_stored_by_filename(d, filename, timestamp) ==
    \E i \in 1..Len(d.notes) : d.notes[i].filename = filename

\* already_stored
already_stored(d, filename, timestamp) ==
    \E i \in 1..Len(d.notes) :
        d.notes[i].filename = filename /\ d.notes[i].timestamp = timestamp

\* insert_metadata that looks for the value under any note: a mutant of
\* insert_metadata
insert_metadata_any_note(table, data, note_id) ==
    IF \E i \in 1..Len(table) : table[i].name = data
    THEN table
    ELSE Append(table, [id |-> NextId(table), name |-> data, note_id |-> note_id])

\* insert_metadata
insert_metadata(table, data, note_id) ==
    IF \E i \in 1..Len(table) : table[i].name = data /\ table[i].note_id = note_id
    THEN table
    ELSE Append(table, [id |-> NextId(table), name |-> data, note_id |-> note_id])

\* for kw in a_note.keywords: insert_metadata(conn, "keywords", kw, note_id)
RECURSIVE InsertTags(_, _, _)
InsertTags(table, tags, note_id) ==
    IF tags = <<>> THEN table
    ELSE InsertTags(insert_metadata(table, Head(tags), note_id), Tail(tags), note_id)

\* add_note that inserts without asking already_stored: a mutant of add_note
add_note_unchecked(d, a_note) ==
    LET note_id == NextId(d.notes) IN
    [raised |-> "",
     value |-> note_id,
     db |-> [notes |-> Append(d.notes, [id |-> note_id, filename |-> a_note.filename,
                                         timestamp |-> a_note.timestamp,
                                         body |-> to_markdown(a_note)]),
             keywords |-> InsertTags(d.keywords, a_note.keywords, note_id),
             present |-> InsertTags(d.present, a_note.present, note_id),
             speakers |-> InsertTags(d.speakers, a_note.speakers, note_id)]]

\* add_note
add_note(d, a_note) ==
    IF already_stored(d, a_note.filename, a_note.timestamp)
    THEN [raised |-> "OverwriteAttemptError", value |-> 0, db |-> d]
    ELSE LET note_id == NextId(d.notes) IN
         [raised |-> "",
          value |-> note_id,
          db |-> [notes |-> Append(d.notes, [id |-> note_id, filename |-> a_note.filename,
                                              timestamp |-> a_note.timestamp,
                                              body |-> to_markdown(a_note)]),
                  keywords |-> InsertTags(d.keywords, a_note.keywords, note_id),
                  present |-> InsertTags(d.present, a_note.present, note_id),
                  speakers |-> InsertTags(d.speakers, a_note.speakers, note_id)]]

\* add_note after already_stored has answered no: the insert of the notes row
\* and of the tag rows, committed together when the with block of conn ends
add_note_insert(d, a_note) ==
    LET note_id == NextId(d.notes) IN
    [notes |-> Append(d.notes, [id |-> note_id, filename |-> a_note.filename,
                                timestamp |-> a_note.timestamp,
                                body |-> to_markdown(a_note)]),
     keywords |-> InsertTags(d.keywords, a_note.keywords, note_id),
     present |-> InsertTags(d.present, a_note.present, note_id),
     speakers |-> InsertTags(d.speakers, a_note.speakers, note_id)]

\* SQLite folds the 26 ASCII upper case letters when LIKE compares
UpperCase == <<"A", "B", "C", "D", "E", "F", "G", "H", "I", "J", "K", "L", "M",
               "N", "O", "P", "Q", "R", "S", "T", "U", "V", "W", "X", "Y", "Z">>

LowerCase == <<"a", "b", "c", "d", "e", "f", "g", "h", "i", "j", "k", "l", "m",
               "n", "o", "p", "q", "r", "s", "t", "u", "v", "w", "x", "y", "z">>

Lower(c) ==
    IF \E i \in 1..Len(UpperCase) : UpperCase[i] = c
    THEN LowerCase[CHOOSE i \in 1..Len(UpperCase) : UpperCase[i] = c]
    ELSE c

\* the SQL operator "text LIKE pattern": % is any run of characters, _ any
\* one character, every other character matches itself ignoring ASCII case
RECURSIVE Like(_, _)
Like(text, pattern) ==
    IF pattern = <<>> THEN text = <<>>
    ELSE IF Head(pattern) = "%"
         THEN \E k \in 0..Len(text) : Like(SubSeq(text, k + 1, Len(text)), Tail(pattern))
         ELSE /\ text # <<>>
              /\ Head(pattern) = "_" \/ Lower(Head(pattern)) = Lower(Head(text))
              /\ Like(Tail(text), Tail(pattern))

create_note_from_row(row) ==
    WithFile(create_note_from_markdown(row.body), row.filename, row.timestamp)

RowsToNotes(rows) == [i \in 1..Len(rows) |-> create_note_from_row(rows[i])]

find_all_notes(d) == RowsToNotes(d.notes)

\* Path(p).name: the last component of the path
PathName(p) ==
    LET parts == SelectSeq(Split(p, "/"), LAMBDA x : x # <<>>)
    IN IF parts = <<>> THEN <<>> ELSE parts[Len(parts)]

\* str.index(c) counted from 0, for a string that holds c
Index(str, c) == (CHOOSE i \in 1..Len(str) : str[i] = c /\ \A j \in 1..(i - 1) : str[j] # c) - 1

\* the pattern text search_by_file builds from its argument
FileSearchText(filename_stem) ==
    LET filename == PathName(filename_stem) IN
    IF \E i \in 1..Len(filename) : filename[i] = "."
    THEN LET pos == Index(filename, ".") IN
         IF pos > 0 THEN SubSeq(filename, 1, Len(filename) - pos) ELSE filename
    ELSE filename

\* search_by_file whose pattern is stem%: a mutant of search_by_file
search_by_file_prefix(d, filename_stem) ==
    LET pattern == FileSearchText(filename_stem) \o <<"%">>
        Keep(row) == Like(row.filename, pattern)
    IN RowsToNotes(SelectSeq(d.notes, Keep))

\* search_by_file
search_by_file(d, filename_stem) ==
    LET pattern == <<"%">> \o FileSearchText(filename_stem) \o <<"%">>
        Keep(row) == Like(row.filename, pattern)
    IN RowsToNotes(SelectSeq(d.notes, Keep))

\* the test operator of make_search_statement applied to one keyword name
KeywordTest(name, data, exact) == IF exact THEN name = data ELSE Like(name, data)

\* search_by_keyword whose pattern is %keyword%: a mutant of search_by_keyword
search_by_keyword_substring(d, keyword, exact_match) ==
    LET data == IF exact_match THEN keyword ELSE <<"%">> \o keyword \o <<"%">>
        joined == {<<k, n>> \in (1..Len(d.keywords)) \X (1..Len(d.notes)) :
                     KeywordTest(d.keywords[k].name, data, exact_match)}
        note_ids == {d.keywords[j[1]].note_id : j \in joined}
        Keep(row) == row.id \in note_ids
    IN RowsToNotes(SelectSeq(d.notes, Keep))

\* search_by_keyword with the statement of make_search_statement("keywords", exact):
\* SELECT * FROM notes WHERE notes.id IN
\*   (SELECT keywords.note_id FROM keywords JOIN notes ON keywords.name <op> :data)
search_by_keyword(d, keyword, exact_match) ==
    LET data == IF exact_match THEN keyword ELSE keyword \o <<"%">>
        joined == {<<k, n>> \in (1..Len(d.keywords)) \X (1..Len(d.notes)) :
                     KeywordTest(d.keywords[k].name, data, exact_match)}
        note_ids == {d.keywords[j[1]].note_id : j \in joined}
        Keep(row) == row.id \in note_ids
    IN RowsToNotes(SelectSeq(d.notes, Keep))

-----------------------------------------------------------------------------
(* The adapter as a state machine: calls arrive one at a time. *)

MaxRows == 2
MaxTs == 2

DbFilenames == {<<"a", "b", ".", "m", "d">>, <<"a", "b", "c", ".", "m", "d">>}

\* the keywords, present and speakers of the notes that are added
DbTagLists ==
    {<< <<<<"a">>, <<"A", "b">>, <<"a">>>>, <<<<"b">>, <<"b">>>>, <<>> >>,
     << <<<<"b">>, <<"x">>>>, <<<<"b">>>>, <<<<"a">>, <<"b">>, <<"a">>>> >>}

DbNoteInputs ==
    {WithFile(NewNote(<<"t">>, tags[1], tags[2], tags[3]), f, t) :
        tags \in DbTagLists, f \in DbFilenames, t \in 1..MaxTs}

KeywordQueries == {<<"a">>, <<"a", "b">>, <<"b">>, <<"_">>, <<"%", "b">>}

FileQueries ==
    {<<"a", "b">>, <<"p", "/", "a", "b", ".", "m", "d">>,
     <<"a", "b", "c">>, <<"p", "/", "q", "/", "a", "b", "c", ".", "m", "d">>,
     <<"b">>, <<"A", "B">>, <<"a", "_">>, <<"x">>}

NoCall == [op |-> "none", arg |-> <<>>, exact |-> FALSE, raised |-> "", value |-> <<>>]

\* the threads and processes that call add_note on the same database file
Callers == {"scan", "watcher"}

NoCalls == [c \in Callers |-> <<>>]

\* add_note up to the answer of already_stored, which runs in a transaction
\* of its own (eng.begin() inside already_stored) and takes no write lock
AddNoteCheck(c, a_note) ==
    /\ calls[c] = <<>>
    /\ Len(db.notes) + Cardinality({x \in Callers : calls[x] # <<>>}) < MaxRows
    /\ IF already_stored(db, a_note.filename, a_note.timestamp)
       THEN /\ ret' = [op |-> "add_note", arg |-> <<a_note.filename, a_note.timestamp>>,
                       exact |-> FALSE, raised |-> "OverwriteAttemptError", value |-> 0]
            /\ calls' = calls
       ELSE /\ ret' = [op |-> "already_stored", arg |-> <<a_note.filename, a_note.timestamp>>,
                       exact |-> FALSE, raised |-> "", value |-> FALSE]
            /\ calls' = [calls EXCEPT ![c] = <<a_note>>]
    /\ UNCHANGED <<db, codecVars, syncVars>>

\* add_note from the insert of the notes row to the commit
AddNoteInsert(c) ==
    /\ calls[c] # <<>>
    /\ db' = add_note_insert(db, calls[c][1])
    /\ ret' = [op |-> "add_note", arg |-> <<calls[c][1].filename, calls[c][1].timestamp>>,
               exact |-> FALSE, raised |-> "", value |-> NextId(db.notes)]
    /\ calls' = [calls EXCEPT ![c] = <<>>]
    /\ UNCHANGED <<codecVars, syncVars>>

AddNote(a_note) ==
    /\ Len(db.notes) < MaxRows
    /\ LET r == add_note(db, a_note) IN
       /\ db' = r.db
       /\ ret' = [op |-> "add_note", arg |-> <<a_note.filename, a_note.timestamp>>,
                  exact |-> FALSE, raised |-> r.raised, value |-> r.value]
    /\ UNCHANGED <<codecVars, syncVars, calls>>

FindAllNotes ==
    /\ ret' = [op |-> "find_all_notes", arg |-> <<>>, exact |-> FALSE, raised |-> "",
               value |-> find_all_notes(db)]
    /\ UNCHANGED <<db, codecVars, syncVars, calls>>

SearchByFile(filename_stem) ==
    /\ ret' = [op |-> "search_by_file", arg |-> filename_stem, exact |-> FALSE,
               raised |-> "", value |-> search_by_file(db, filename_stem)]
    /\ UNCHANGED <<db, codecVars, syncVars, calls>>

SearchByKeyword(keyword, exact_match) ==
    /\ ret' = [op |-> "search_by_keyword", arg |-> keyword, exact |-> exact_match,
               raised |-> "", value |-> search_by_keyword(db, keyword, exact_match)]
    /\ UNCHANGED <<db, codecVars, syncVars, calls>>

-----------------------------------------------------------------------------
(* notes.py, searches.py: reading a note file and scanning the directory *)

Digits == {"0", "1", "2", "3", "4", "5", "6", "7", "8", "9"}

\* str.isnumeric
IsNumeric(s) == s # <<>> /\ Chars(s) \subseteq Digits

\* Path.stem: the name without its last suffix
PathStem(name) ==
    LET dots == {i \in 1..Len(name) : name[i] = "."} IN
    IF dots = {} THEN name
    ELSE LET k == CHOOSE i \in dots : \A j \in dots : j <= i IN
         IF k = 1 \/ k = Len(name) THEN name ELSE SubSeq(name, 1, k - 1)

\* os.path.basename: what follows the last "/"
basename(p) ==
    LET slashes == {i \in 1..Len(p) : p[i] = "/"} IN
    IF slashes = {} THEN p
    ELSE SubSeq(p, (CHOOSE i \in slashes : \A j \in slashes : j <= i) + 1, Len(p))

\* date_pattern.search: where the first run of eight digits starts, 0 for none
DateStart(str) ==
    LET starts == {i \in 1..(Len(str) - 7) : IsNumeric(SubSeq(str, i, i + 7))} IN
    IF starts = {} THEN 0 ELSE CHOOSE i \in starts : \A j \in starts : i <= j

\* parse_filename: <<prefix, date, postfix>>
parse_filename(filename) ==
    LET base == basename(filename)
        str == IF EndsWith(base, <<".", "m", "d">>) THEN SubSeq(base, 1, Len(base) - 3) ELSE base
        start == DateStart(str)
        prefix_str == SubSeq(str, 1, start - 1)
        postfix_str == SubSeq(str, start + 8, Len(str))
    IN IF start = 0 THEN << <<>>, <<>>, <<>> >>
       ELSE <<IF EndsWith(prefix_str, <<"-">>) THEN SubSeq(prefix_str, 1, Len(prefix_str) - 1)
              ELSE prefix_str,
              SubSeq(str, start, start + 7),
              IF StartsWith(postfix_str, <<"-">>) THEN Tail(postfix_str) ELSE postfix_str>>

\* the decimal digits of a natural number
RECURSIVE DigitsOf(_)
DigitsOf(n) ==
    LET d == <<"0", "1", "2", "3", "4", "5", "6", "7", "8", "9">>[(n % 10) + 1] IN
    IF n < 10 THEN <<d>> ELSE Append(DigitsOf(n \div 10), d)

\* a format field of a width, filled on the left
RECURSIVE Filled(_, _, _)
Filled(str, width, fill) ==
    IF Len(str) >= width THEN str ELSE Filled(<<fill>> \o str, width, fill)

\* f"{today_date.year:4}{today_date.month:02}{today_date.day:02}"
FormatDate(today) ==
    Filled(DigitsOf(today[1]), 4, " ") \o Filled(DigitsOf(today[2]), 2, "0")
        \o Filled(DigitsOf(today[3]), 2, "0")

\* Note.__init__: the filename and the date of the new Note
Note_init(filename, today) ==
    IF filename # <<>>
    THEN [filename |-> filename, date |-> parse_filename(filename)[2]]
    ELSE [filename |-> FormatDate(today), date |-> FormatDate(today)]

\* extract_metadata_from_file_path with a date made of the eight-digit items
\* only: a mutant of extract_metadata_from_file_path
extract_metadata_from_file_path_eight_digits(name) ==
    LET stem == PathStem(name)
        items == IF "-" \in Chars(stem) THEN Split(stem, "-") ELSE Split(stem, " ")
        first == Head(items)
        rest == Tail(items)
        NotNumeric(x) == ~IsNumeric(x)
        IsDate(x) == IsNumeric(x) /\ Len(x) = 8
        date_data == (IF IsDate(first) THEN <<first>> ELSE <<>>) \o SelectSeq(rest, IsDate)
        kw_data == SelectSeq(rest, NotNumeric)
        file_date == Strip(Join(date_data, <<>>))
        last == Strip(Join(kw_data, <<" ">>))
    IN (IF IsNumeric(first) THEN <<>> ELSE <<first>>)
       \o <<file_date>>
       \o (IF last # <<>> THEN <<last>> ELSE <<>>)

\* the keywords extract_metadata_from_file_path takes from the file name
extract_metadata_from_file_path(name) ==
    LET stem == PathStem(name)
        items == IF "-" \in Chars(stem) THEN Split(stem, "-") ELSE Split(stem, " ")
        first == Head(items)
        rest == Tail(items)
        NotNumeric(x) == ~IsNumeric(x)
        date_data == (IF IsNumeric(first) THEN <<first>> ELSE <<>>) \o SelectSeq(rest, IsNumeric)
        kw_data == SelectSeq(rest, NotNumeric)
        file_date == Strip(Join(date_data, <<>>))
        last == Strip(Join(kw_data, <<" ">>))
    IN (IF IsNumeric(first) THEN <<>> ELSE <<first>>)
       \o <<file_date>>
       \o (IF last # <<>> THEN <<last>> ELSE <<>>)

\* for kw in meta.keywords: if kw and kw not in note.keywords: append
RECURSIVE AppendMissing(_, _)
AppendMissing(kws, more) ==
    IF more = <<>> THEN kws
    ELSE AppendMissing(
            IF Head(more) # <<>> /\ \A i \in 1..Len(kws) : kws[i] # Head(more)
            THEN Append(kws, Head(more)) ELSE kws,
            Tail(more))

\* Note.load_file of a readable file
load_file(name, text, mtime) ==
    LET n == create_note_from_markdown(text) IN
    WithFile([n EXCEPT !.keywords = AppendMissing(@, extract_metadata_from_file_path(name))],
             <<>>, mtime)

\* process_file of a readable file: OverwriteAttemptError is logged and swallowed
process_file(d, name, text, mtime) ==
    LET data == load_file(name, text, mtime)
        n == create_note_from_markdown(to_markdown(data))
    IN add_note(d, WithFile(n, name, data.timestamp)).db

\* timestamp_table = {row[0]: row[1] for row in result}: the last row of a name wins
TimestampTable(d) ==
    [f \in {d.notes[i].filename : i \in 1..Len(d.notes)} |->
        LET rows == {i \in 1..Len(d.notes) : d.notes[i].filename = f}
        IN d.notes[CHOOSE i \in rows : \A j \in rows : j <= i].timestamp]

\* needs_updating that takes only a file without a row: a mutant of
\* needs_updating
needs_updating_if_absent(timestamp_table, name, mtime) ==
    name \notin DOMAIN timestamp_table

\* needs_updating that also takes a file as old as its row: a mutant of
\* needs_updating
needs_updating_or_equal(timestamp_table, name, mtime) ==
    IF name \in DOMAIN timestamp_table THEN mtime >= timestamp_table[name] ELSE TRUE

\* needs_updating
needs_updating(timestamp_table, name, mtime) ==
    IF name \in DOMAIN timestamp_table THEN mtime > timestamp_table[name] ELSE TRUE

excluded(name, excluded_files) ==
    \E i \in 1..Len(excluded_files) : StartsWith(name, excluded_files[i])

\* the text every note file of the model holds
NoteText == <<"#", " ", "t">>

\* the loop of process_files that logs an IOError and goes on to the next
\* file: a mutant of ScanLoop
RECURSIVE ScanLoop_skips_unreadable(_, _, _, _, _, _, _, _)
ScanLoop_skips_unreadable(d, timestamp_table, todo, fs, locked, exclude_files, update_count, opened) ==
    IF todo = <<>>
    THEN [db |-> d, result |-> 0, count |-> update_count, opened |-> opened]
    ELSE LET the_file == Head(todo) IN
         IF excluded(the_file, exclude_files)
            \/ ~needs_updating(timestamp_table, the_file, fs[the_file])
         THEN ScanLoop_skips_unreadable(d, timestamp_table, Tail(todo), fs, locked,
                                        exclude_files, update_count, opened)
         ELSE IF the_file \in locked
              THEN ScanLoop_skips_unreadable(d, timestamp_table, Tail(todo), fs, locked,
                                             exclude_files, update_count,
                                             opened \cup {the_file})
              ELSE ScanLoop_skips_unreadable(
                        process_file(d, the_file, NoteText, fs[the_file]), timestamp_table,
                        Tail(todo), fs, locked, exclude_files, update_count + 1,
                        opened \cup {the_file})

\* for the_file in files: ... of process_files; an IOError ends the scan with
\* (1, 0).  opened holds the files load_file was called on.
RECURSIVE ScanLoop(_, _, _, _, _, _, _, _)
ScanLoop(d, timestamp_table, todo, fs, locked, exclude_files, update_count, opened) ==
    IF todo = <<>>
    THEN [db |-> d, result |-> 0, count |-> update_count, opened |-> opened]
    ELSE LET the_file == Head(todo) IN
         IF excluded(the_file, exclude_files)
            \/ ~needs_updating(timestamp_table, the_file, fs[the_file])
         THEN ScanLoop(d, timestamp_table, Tail(todo), fs, locked, exclude_files,
                       update_count, opened)
         ELSE IF the_file \in locked
              THEN [db |-> d, result |-> 1, count |-> 0, opened |-> opened \cup {the_file}]
              ELSE ScanLoop(process_file(d, the_file, NoteText, fs[the_file]), timestamp_table,
                            Tail(todo), fs, locked, exclude_files, update_count + 1,
                            opened \cup {the_file})

\* notes_path.glob("*.md") in one of the orders the file system may list it in
GlobMd(fs) ==
    LET found == {f \in DOMAIN fs : fs[f] # 0 /\ EndsWith(f, <<".", "m", "d">>)}
    IN {o \in [1..Cardinality(found) -> found] : \A i, j \in DOMAIN o : o[i] = o[j] => i = j}

\* process_files without its first test; glob lists what the model keeps of
\* the directory: a mutant of process_files
process_files_unvalidated(d, valid_directory_path, todo, fs, locked, exclude_files) ==
    ScanLoop(d, TimestampTable(d), todo, fs, locked, exclude_files, 0, {})

\* process_files, with the files of the directory listed in the order todo
process_files(d, valid_directory_path, todo, fs, locked, exclude_files) ==
    IF ~valid_directory_path THEN [db |-> d, result |-> 1, count |-> 0, opened |-> {}]
    ELSE ScanLoop(d, TimestampTable(d), todo, fs, locked, exclude_files, 0, {})

-----------------------------------------------------------------------------
(* watcher.py: the debounce table; server.py: the web layer's scans *)

DATABASE_UPDATE_TIME_DELTA == 60 * 5

EXCLUDED_FILENAME_STEMS == {<<"c", "r", "a", "p">>}

\* str.lower
LowerStr(str) == [i \in 1..Len(str) |-> Lower(str[i])]

valid_note(filename) ==
    LET n == LowerStr(PathName(filename)) IN
    IF StartsWith(n, <<"#">>) \/ StartsWith(n, <<".", "#">>) THEN FALSE
    ELSE IF SubSeq(n, 1, IF Len(n) < 4 THEN Len(n) ELSE 4) \in EXCLUDED_FILENAME_STEMS THEN FALSE
    ELSE EndsWith(n, <<".", "m", "d">>)

\* self._modified_notes[filename] = value, on a dict kept as a sequence of pairs
TableSet(table, filename, value) ==
    IF \E i \in 1..Len(table) : table[i][1] = filename
    THEN [i \in 1..Len(table) |-> IF table[i][1] = filename THEN <<filename, value>> ELSE table[i]]
    ELSE Append(table, <<filename, value>>)

\* MonitoredNoteTable.add_note that keeps the timestamp of an entry it
\* already holds: a mutant of MonitoredNoteTable_add_note
MonitoredNoteTable_add_note_keeps_first(table, filename, time) ==
    IF valid_note(filename) /\ \A i \in 1..Len(table) : table[i][1] # filename
    THEN Append(table, <<filename, time>>)
    ELSE table

\* MonitoredNoteTable.add_note without the valid_note test: a mutant of
\* MonitoredNoteTable_add_note
MonitoredNoteTable_add_note_any_name(table, filename, time) ==
    TableSet(table, filename, time)

\* MonitoredNoteTable.add_note
MonitoredNoteTable_add_note(table, filename, time) ==
    IF valid_note(filename) THEN TableSet(table, filename, time) ELSE table

\* MonitoredNoteTable.drop_note that deletes nothing: a mutant of drop_note
drop_note_keeps(table, filename) == table

\* MonitoredNoteTable.drop_note
drop_note(table, filename) ==
    SelectSeq(table, LAMBDA e : e[1] # filename)

\* MonitoredNoteTable.get_timestamp
get_timestamp(table, filename) ==
    table[CHOOSE i \in 1..Len(table) : table[i][1] = filename][2]

\* the main loop of the watcher in time.sleep(1), or not started
SweepIdle == [pc |-> "sleep", aged |-> <<>>, seen |-> 0]

\* MonitoredNoteTable.notes
notes(table) == [i \in 1..Len(table) |-> table[i][1]]

\* MonitoredNoteTable.notes_older_than
notes_older_than(table, time, d) ==
    LET aged == SelectSeq(table, LAMBDA e : time - e[2] > d)
    IN [i \in 1..Len(aged) |-> aged[i][1]]

\* the body of the for loop of main over aged_notes; an IOError ends the process
RECURSIVE SweepLoop(_, _, _, _, _)
SweepLoop(d, table, aged_notes, fs, locked) ==
    IF aged_notes = <<>> THEN [db |-> d, table |-> table, exited |-> FALSE]
    ELSE LET note_path == Head(aged_notes)
             name == PathName(note_path)
         IN IF ~valid_note(note_path)
               \/ already_stored(d, note_path, get_timestamp(table, note_path))
            THEN SweepLoop(d, table, Tail(aged_notes), fs, locked)
            ELSE IF fs[name] = 0 \/ name \in locked
                 THEN [db |-> d, table |-> table, exited |-> TRUE]
                 ELSE SweepLoop(process_file(d, name, NoteText, fs[name]),
                                drop_note(table, note_path), Tail(aged_notes), fs, locked)

\* remove_crap: unlink what glob("crap*.*") and glob("*.*~") list
remove_crap(fs) ==
    [f \in DOMAIN fs |->
        IF \/ StartsWith(f, <<"c", "r", "a", "p">>) /\ "." \in Chars(SubSeq(f, 5, Len(f)))
           \/ EndsWith(f, <<"~">>) /\ "." \in Chars(SubSeq(f, 1, Len(f) - 1))
        THEN 0 ELSE fs[f]]

-----------------------------------------------------------------------------
(* The directory, the watcher process and the web server as a state machine *)

MaxMtime == 2
MaxTicks == 2
MaxIndexRows == 3
MaxUnreadable == 1
MaxFiles == 2
TickSeconds == 200

NotesPath == <<"n">>

FileNames == {<<"a", ".", "m", "d">>,
              <<"c", "r", "a", "p", "-", "a", ".", "m", "d">>,
              <<"#", "d", ".", "m", "d">>}

\* event.src_path of a file of the notes directory
SrcPath(name) == NotesPath \o <<"/">> \o name

Seconds == now * TickSeconds

Step(op, arg, value) == [op |-> op, arg |-> arg, exact |-> FALSE, raised |-> "", value |-> value]

\* a step of the environment, which returns nothing to the program
EnvStep == Step("env", <<>>, <<>>)

\* what do_scan returned, with the number of rows it added, whether it ran
\* straight after a successful do_scan of the same exclude argument, the
\* files it opened and the order glob listed the directory in
ScanStep(exclude, r, todo) ==
    Step("do_scan", exclude,
         <<r.result, r.count, Len(r.db.notes) - Len(db.notes),
           IF ret.op = "do_scan" /\ ret.arg = exclude /\ ret.value[1] = 0 THEN 2 ELSE 1,
           r.opened, IF dirValid THEN todo ELSE <<>> >>)

\* do_scan(exclude=...) on the directory and index of the state
DoScan(exclude) ==
    \E todo \in GlobMd(files) :
        LET r == process_files(db, dirValid, todo, files, unreadable, exclude) IN
        /\ Len(r.db.notes) <= MaxIndexRows
        /\ db' = r.db
        /\ ret' = ScanStep(exclude, r, todo)

\* the user, an editor or a sync tool writes a file and sets its mtime
WriteFile(f, m) ==
    /\ dirValid
    /\ files[f] # m
    /\ Cardinality({g \in DOMAIN files : files[g] # 0} \cup {f}) <= MaxFiles
    /\ files' = [files EXCEPT ![f] = m]
    /\ ret' = EnvStep
    /\ UNCHANGED <<db, unreadable, dirValid, monitored, now, sweep, wpc, spc, codecVars, calls>>

RemoveFile(f) ==
    /\ dirValid
    /\ files[f] # 0
    /\ files' = [files EXCEPT ![f] = 0]
    /\ unreadable' = unreadable \ {f}
    /\ ret' = EnvStep
    /\ UNCHANGED <<db, dirValid, monitored, now, sweep, wpc, spc, codecVars, calls>>

\* the permissions of a file change
Chmod(f) ==
    /\ dirValid
    /\ files[f] # 0
    /\ unreadable' = IF f \in unreadable THEN unreadable \ {f} ELSE unreadable \cup {f}
    /\ Cardinality(unreadable') <= MaxUnreadable
    /\ ret' = EnvStep
    /\ UNCHANGED <<db, files, dirValid, monitored, now, sweep, wpc, spc, codecVars, calls>>

\* the directory is unmounted or renamed away, or comes back with its files
MoveDirectory ==
    /\ dirValid' = ~dirValid
    /\ ret' = EnvStep
    /\ UNCHANGED <<db, files, unreadable, monitored, now, sweep, wpc, spc, codecVars, calls>>

\* time passes; the clock is read only while the table holds a note
Tick ==
    /\ now < MaxTicks
    /\ monitored # <<>>
    /\ now' = now + 1
    /\ ret' = EnvStep
    /\ UNCHANGED <<db, files, unreadable, dirValid, monitored, sweep, wpc, spc, codecVars, calls>>

\* watcher.main up to observer.start()
WatcherStart ==
    /\ wpc = "off"
    /\ DoScan(<<(<<"c", "r", "a", "p">>)>>)
    /\ wpc' = IF ret'.value[1] = 0 THEN "running" ELSE "off"
    /\ monitored' = <<>>
    /\ UNCHANGED <<files, unreadable, dirValid, now, sweep, spc, codecVars, calls>>

\* NotedEventHandler.on_created with the default create_processor
OnCreated(f) ==
    /\ wpc = "running"
    /\ files[f] # 0
    /\ ret' = Step("on_created", SrcPath(f), <<>>)
    /\ UNCHANGED <<db, files, unreadable, dirValid, monitored, now, sweep, wpc, spc, codecVars, calls>>

\* NotedEventHandler.on_modified with handle_modified_event; the step
\* records whether the table already held the path
OnModified(f) ==
    /\ wpc = "running"
    /\ files[f] # 0
    /\ IF EndsWith(SrcPath(f), <<".", "m", "d">>)
       THEN monitored' = MonitoredNoteTable_add_note(monitored, SrcPath(f), Seconds)
       ELSE monitored' = monitored
    /\ ret' = Step("on_modified", SrcPath(f),
                    <<\E i \in 1..Len(monitored) : monitored[i][1] = SrcPath(f)>>)
    /\ UNCHANGED <<db, files, unreadable, dirValid, now, sweep, wpc, spc, codecVars, calls>>

\* one pass of the while loop of watcher.main that finds aged notes
Sweep ==
    /\ wpc = "running"
    /\ LET aged_notes == notes_older_than(monitored, Seconds, DATABASE_UPDATE_TIME_DELTA)
           r == SweepLoop(db, monitored, aged_notes, files, unreadable)
       IN /\ aged_notes # <<>>
          /\ Len(r.db.notes) <= MaxIndexRows
          /\ db' = r.db
          /\ monitored' = IF r.exited THEN <<>> ELSE r.table
          /\ wpc' = IF r.exited THEN "off" ELSE "running"
          /\ ret' = Step("sweep", aged_notes, <<r.exited>>)
    /\ UNCHANGED <<files, unreadable, dirValid, now, sweep, spc, codecVars, calls>>

\* The while loop of watcher.main one table access at a time, as the observer
\* thread that runs on_modified sees it.

\* the next of the aged_notes, or back to time.sleep(1)
SweepAdvance ==
    IF Tail(sweep.aged) = <<>> THEN SweepIdle
    ELSE [pc |-> "check", aged |-> Tail(sweep.aged), seen |-> 0]

\* an exception that leaves main: the process ends with its table
WatcherDies(op, arg, raised, value) ==
    /\ wpc' = "off"
    /\ monitored' = <<>>
    /\ sweep' = SweepIdle
    /\ ret' = [op |-> op, arg |-> arg, exact |-> FALSE, raised |-> raised, value |-> value]

\* notes_older_than: the for loop takes an iterator of the dict, which
\* remembers the size of the dict
SweepIterBegin ==
    /\ wpc = "running"
    /\ sweep.pc = "sleep"
    /\ sweep' = [pc |-> "iter", aged |-> <<>>, seen |-> Len(monitored)]
    /\ ret' = Step("notes_older_than", <<>>, <<>>)
    /\ UNCHANGED <<db, files, unreadable, dirValid, monitored, now, wpc, spc, codecVars, calls>>

\* notes_older_than: the iterator raises RuntimeError (dictionary changed
\* size during iteration) when the dict has grown since it was taken, and
\* main catches KeyboardInterrupt only
SweepIterEnd ==
    /\ wpc = "running"
    /\ sweep.pc = "iter"
    /\ IF Len(monitored) # sweep.seen
       THEN WatcherDies("notes_older_than", <<>>, "RuntimeError", <<>>)
       ELSE LET aged_notes == notes_older_than(monitored, Seconds, DATABASE_UPDATE_TIME_DELTA)
            IN /\ sweep' = IF aged_notes = <<>> THEN SweepIdle
                           ELSE [pc |-> "check", aged |-> aged_notes, seen |-> 0]
               /\ ret' = Step("notes_older_than", <<>>, <<>>)
               /\ UNCHANGED <<monitored, wpc>>
    /\ UNCHANGED <<db, files, unreadable, dirValid, now, spc, codecVars, calls>>

\* for note in aged_notes: valid_note(p), then already_stored with the
\* timestamp get_timestamp reads from the table
SweepCheck ==
    /\ wpc = "running"
    /\ sweep.pc = "check"
    /\ LET note_path == Head(sweep.aged) IN
       IF ~valid_note(note_path)
          \/ already_stored(db, note_path, get_timestamp(monitored, note_path))
       THEN sweep' = SweepAdvance
       ELSE sweep' = [sweep EXCEPT !.pc = "store"]
    /\ ret' = Step("already_stored", <<>>, <<>>)
    /\ UNCHANGED <<db, files, unreadable, dirValid, monitored, now, wpc, spc, codecVars, calls>>

\* the sweep that logs an IOError and goes on to the next aged note: a
\* mutant of SweepStore
SweepStore_skips_unreadable ==
    /\ wpc = "running"
    /\ sweep.pc = "store"
    /\ LET note_path == Head(sweep.aged)
           name == PathName(note_path)
       IN IF files[name] = 0 \/ name \in unreadable
          THEN /\ db' = db
               /\ sweep' = SweepAdvance
               /\ ret' = Step("process_file", <<>>, <<>>)
          ELSE /\ db' = process_file(db, name, NoteText, files[name])
               /\ sweep' = [sweep EXCEPT !.pc = "drop"]
               /\ ret' = Step("process_file", <<>>, <<>>)
    /\ UNCHANGED <<files, unreadable, dirValid, monitored, now, wpc, spc, codecVars, calls>>

\* process_file(engine, p); on IOError logger.fatal and sys.exit(1)
SweepStore ==
    /\ wpc = "running"
    /\ sweep.pc = "store"
    /\ LET note_path == Head(sweep.aged)
           name == PathName(note_path)
       IN IF files[name] = 0 \/ name \in unreadable
          THEN /\ WatcherDies("process_file", note_path, "IOError", <<1, Tail(sweep.aged)>>)
               /\ db' = db
          ELSE /\ db' = process_file(db, name, NoteText, files[name])
               /\ sweep' = [sweep EXCEPT !.pc = "drop"]
               /\ ret' = Step("process_file", <<>>, <<>>)
               /\ UNCHANGED <<monitored, wpc>>
    /\ UNCHANGED <<files, unreadable, dirValid, now, spc, codecVars, calls>>

\* MODIFIED_NOTES_TABLE.drop_note(note)
SweepDrop ==
    /\ wpc = "running"
    /\ sweep.pc = "drop"
    /\ monitored' = drop_note(monitored, Head(sweep.aged))
    /\ sweep' = SweepAdvance
    /\ ret' = Step("drop_note", <<>>, <<>>)
    /\ UNCHANGED <<db, files, unreadable, dirValid, now, wpc, spc, codecVars, calls>>

\* KeyboardInterrupt in watcher.main: update_git_repository erases files
WatcherInterrupt ==
    /\ wpc = "running"
    /\ wpc' = "off"
    /\ monitored' = <<>>
    /\ files' = [f \in DOMAIN files |->
                    IF StartsWith(f, <<".", "#">>) THEN 0 ELSE remove_crap(files)[f]]
    /\ unreadable' = {f \in unreadable : files'[f] # 0}
    /\ sweep' = SweepIdle
    /\ ret' = Step("watcher_interrupt", notes(monitored), <<>>)
    /\ UNCHANGED <<db, dirValid, now, spc, codecVars, calls>>

\* app.mainloop: launch_server
LaunchServer ==
    /\ spc = "stopped"
    /\ spc' = "serving"
    /\ ret' = Step("launch_server", <<>>, <<>>)
    /\ UNCHANGED <<db, files, unreadable, dirValid, monitored, now, sweep, wpc, codecVars, calls>>

\* server.update: do_scan(exclude=["crap"]), served until the process ends
WebUpdate ==
    /\ spc \in {"serving", "terminal_scan", "signalled"}
    /\ DoScan(<<(<<"c", "r", "a", "p">>)>>)
    /\ UNCHANGED <<files, unreadable, dirValid, monitored, now, sweep, wpc, spc, codecVars, calls>>

\* remove_crap() on the directory of the state
RemoveCrap ==
    /\ files' = IF dirValid THEN remove_crap(files) ELSE files
    /\ unreadable' = {f \in unreadable : files'[f] # 0}
    /\ ret' = Step("remove_crap", <<>>, <<>>)

\* terminal_process, started by /terminate: remove_crap()
TerminalRemoveCrap ==
    /\ spc = "serving"
    /\ spc' = "terminal_scan"
    /\ RemoveCrap
    /\ UNCHANGED <<db, dirValid, monitored, now, sweep, wpc, codecVars, calls>>

\* terminal_process: update_database_before_exiting(), that is do_scan() with
\* exclude = "" and list("") = []; a failed scan ends the thread, a
\* successful one is followed by SIGINT
TerminalScan ==
    /\ spc = "terminal_scan"
    /\ DoScan(<<>>)
    /\ spc' = IF ret'.value[1] = 0 THEN "signalled" ELSE "serving"
    /\ UNCHANGED <<files, unreadable, dirValid, monitored, now, sweep, wpc, codecVars, calls>>

\* interrupt_handler, on SIGINT: stop_server() and remove_crap()
InterruptRemoveCrap ==
    /\ spc \in {"serving", "signalled"}
    /\ spc' = "interrupt_scan"
    /\ RemoveCrap
    /\ UNCHANGED <<db, dirValid, monitored, now, sweep, wpc, codecVars, calls>>

\* interrupt_handler: update_database_before_exiting() and sys.exit
InterruptScan ==
    /\ spc = "interrupt_scan"
    /\ DoScan(<<>>)
    /\ spc' = "stopped"
    /\ UNCHANGED <<files, unreadable, dirValid, monitored, now, sweep, wpc, codecVars, calls>>

-----------------------------------------------------------------------------
(* Specifications *)

SyncIdle ==
    /\ files = [f \in FileNames |-> 0]
    /\ unreadable = {}
    /\ dirValid = TRUE
    /\ monitored = <<>>
    /\ now = 0
    /\ wpc = "off"
    /\ sweep = SweepIdle
    /\ spc = "stopped"

CodecIdle == note = EmptyNote /\ markdown = <<>> /\ decoded = EmptyNote /\ cpc = "idle"

DbIdle == db = EmptyDb /\ ret = NoCall /\ calls = NoCalls

CodecInit ==
    /\ note \in NoteInputs
    /\ markdown = <<>>
    /\ decoded = EmptyNote
    /\ cpc = "built"
    /\ DbIdle
    /\ SyncIdle

CodecNext == Encode \/ Decode

\* the decoder alone, given any text
DecodeInit ==
    /\ note = EmptyNote
    /\ markdown \in TextInputs
    /\ decoded = EmptyNote
    /\ cpc = "encoded"
    /\ DbIdle
    /\ SyncIdle

SpecDecode == DecodeInit /\ [][Decode]_vars

\* the decoder given one metadata line
TagLineInit ==
    /\ note = EmptyNote
    /\ markdown \in TagLineInputs
    /\ decoded = EmptyNote
    /\ cpc = "encoded"
    /\ DbIdle
    /\ SyncIdle

SpecTagLine == TagLineInit /\ [][Decode]_vars

SpecCodec == CodecInit /\ [][CodecNext]_vars

DbInit == DbIdle /\ CodecIdle /\ SyncIdle

DbNext ==
    \/ \E a_note \in DbNoteInputs : AddNote(a_note)
    \/ FindAllNotes
    \/ \E s \in FileQueries : SearchByFile(s)
    \/ \E k \in KeywordQueries, e \in BOOLEAN : SearchByKeyword(k, e)

SpecDb == DbInit /\ [][DbNext]_vars

\* add_note called from two places at once
RaceNext ==
    \/ \E c \in Callers, a_note \in DbNoteInputs : AddNoteCheck(c, a_note)
    \/ \E c \in Callers : AddNoteInsert(c)

SpecRace == DbInit /\ [][RaceNext]_vars

\* The file names given to the heuristic and to Note: at most MaxNameTokens
\* items joined by "-" or by spaces, with or without the suffix and a directory.
MaxNameTokens == 4

NameTokens == {<<"2", "0", "2", "2">>, <<"b", "o", "b">>,
               <<"2", "0", "2", "2", "0", "2", "0", "1">>,
               <<"m", "e", "e", "t", "i", "n", "g">>}

NameInputs ==
    {Join(toks, <<sep>>) \o ext :
        toks \in UNION {[1..k -> NameTokens] : k \in 1..MaxNameTokens},
        sep \in {"-", " "}, ext \in {<<>>, <<".", "m", "d">>}}

\* date.today() as <<year, month, day>>
Todays == {<<2022, 2, 1>>, <<1999, 12, 31>>, <<2026, 11, 4>>}

\* one call of Note.extract_metadata_from_file_path(path)
ExtractMetadata(name) ==
    /\ ret = NoCall
    /\ ret' = Step("extract_metadata_from_file_path", name, extract_metadata_from_file_path(name))
    /\ UNCHANGED <<codecVars, db, syncVars, calls>>

\* one call of Note(page_header, filename)
ConstructNote(filename, today) ==
    /\ ret = NoCall
    /\ ret' = Step("Note", <<filename, today>>, Note_init(filename, today))
    /\ UNCHANGED <<codecVars, db, syncVars, calls>>

NamesNext ==
    \/ \E name \in NameInputs : ExtractMetadata(name)
    \/ \E filename \in {d \o name : d \in {<<>>, <<"n", "/">>}, name \in NameInputs \cup {<<>>}},
          today \in Todays : ConstructNote(filename, today)

SpecNames == DbInit /\ [][NamesNext]_vars

SyncInit == SyncIdle /\ DbIdle /\ CodecIdle

\* the directory as its users change it
DirectoryNext ==
    \/ \E f \in FileNames, m \in 1..MaxMtime : WriteFile(f, m)
    \/ \E f \in FileNames : RemoveFile(f)

\* the watcher process
WatcherNext ==
    \/ Tick
    \/ WatcherStart
    \/ \E f \in FileNames : OnCreated(f)
    \/ \E f \in FileNames : OnModified(f)
    \/ Sweep
    \/ WatcherInterrupt

\* the web server process while it serves
ServingNext ==
    \/ LaunchServer
    \/ WebUpdate

\* the web server process as it shuts down
ShutdownNext ==
    \/ TerminalRemoveCrap
    \/ TerminalScan
    \/ InterruptRemoveCrap
    \/ InterruptScan

\* the directory and its files may become unusable
FaultNext ==
    \/ \E f \in FileNames : Chmod(f)
    \/ MoveDirectory

\* the watcher process alone with the directory it watches
WatchNext == DirectoryNext \/ WatcherNext

SpecWatch == SyncInit /\ [][WatchNext]_vars

\* the web server alone with a directory that may become unusable
ServeNext == DirectoryNext \/ FaultNext \/ ServingNext \/ ShutdownNext

SpecServer == SyncInit /\ [][ServeNext]_vars

\* the watcher beside a serving web server, on a directory that stays usable
SyncNext == DirectoryNext \/ WatcherNext \/ ServingNext

SpecSync == SyncInit /\ [][SyncNext]_vars

\* the watcher beside a serving web server, on a directory whose files may
\* become unreadable
FaultySyncNext == SyncNext \/ \E f \in FileNames : Chmod(f)

SpecFaultySync == SyncInit /\ [][FaultySyncNext]_vars

\* the notes whose events the table is followed on
EventNames == {<<"a", ".", "m", "d">>, <<"b", ".", "m", "d">>, <<"#", "d", ".", "m", "d">>}

EventsInit ==
    /\ files = [f \in EventNames |-> 0]
    /\ unreadable = {}
    /\ dirValid = TRUE
    /\ monitored = <<>>
    /\ now = 0
    /\ wpc = "off"
    /\ sweep = SweepIdle
    /\ spc = "stopped"
    /\ DbIdle
    /\ CodecIdle

\* the observer thread of a watcher whose main loop finds no aged note
EventsNext ==
    \/ \E f \in EventNames : WriteFile(f, 1)
    \/ \E f \in EventNames : RemoveFile(f)
    \/ WatcherStart
    \/ Tick
    \/ \E f \in EventNames : OnCreated(f)
    \/ \E f \in EventNames : OnModified(f)

SpecEvents == EventsInit /\ [][EventsNext]_vars

\* the notes the watcher's threads are followed on
SweepNames == {<<"a", ".", "m", "d">>, <<"b", ".", "m", "d">>}

SweepInit ==
    /\ files = [f \in SweepNames |-> 0]
    /\ unreadable = {}
    /\ dirValid = TRUE
    /\ monitored = <<>>
    /\ now = 0
    /\ wpc = "off"
    /\ sweep = SweepIdle
    /\ spc = "stopped"
    /\ DbIdle
    /\ CodecIdle

\* the main thread of the watcher
SweepThreadNext ==
    \/ SweepIterBegin
    \/ SweepIterEnd
    \/ SweepCheck
    \/ SweepStore
    \/ SweepDrop

\* the observer thread, the clock and the user, who writes a note once
ObserverNext ==
    \/ \E f \in SweepNames : WriteFile(f, 1)
    \/ \E f \in SweepNames : RemoveFile(f)
    \/ \E f \in SweepNames : Chmod(f)
    \/ \E f \in SweepNames : OnModified(f)
    \/ Tick
    \/ WatcherStart

ThreadsNext == SweepThreadNext \/ ObserverNext

\* the main thread and the observer thread of the watcher, interleaved
SpecThreads == SweepInit /\ [][ThreadsNext]_vars

\* the places the main loop can be at
SweepPlaces ==
    [pc : {"sleep", "iter", "check", "store", "drop"},
     aged : {<<>>} \cup {<<SrcPath(f)>> : f \in SweepNames}
            \cup {<<SrcPath(f), SrcPath(g)>> : <<f, g>> \in {x \in SweepNames \X SweepNames : x[1] # x[2]}},
     seen : 0..Cardinality(SweepNames)]

\* the main thread takes its next step, whichever it is: the steps of
\* SweepThreadNext are the steps that move sweep, and one of them is
\* possible whenever the process runs
MainThreadMoves ==
    /\ wpc = "running"
    /\ sweep' \in SweepPlaces
    /\ sweep' # sweep

\* the main loop runs on while the process lives
SpecThreadsFair == SpecThreads /\ WF_sweep(MainThreadMoves)

-----------------------------------------------------------------------------
(* Claim C1: the round trip of the codec *)

SectionSet(n) ==
    {<<n.sections[i].header, Strip(n.sections[i].data)>> : i \in 1..Len(n.sections)}

\* m equals n in title, in the three tag sequences and in the section set
RoundTrip(n, m) ==
    /\ m.page_header = n.page_header
    /\ m.keywords = n.keywords
    /\ m.present = n.present
    /\ m.speakers = n.speakers
    /\ SectionSet(m) = SectionSet(n)

\* one line of text with no blank at either end
CleanLine(s) == s = Strip(s) /\ NL \notin Chars(s)

WellFormedTag(t) == CleanLine(t) /\ Chars(t) \cap {",", ";", ":"} = {}

WellFormedData(d) ==
    \A i \in 1..Len(Split(d, NL)) :
        LET line == Split(d, NL)[i] IN
        /\ line = Strip(line)
        /\ ~StartsWith(line, <<"#", " ">>)
        /\ ~StartsWith(line, <<"#", "#", " ">>)
        /\ ~StartsWith(line, META_OPEN)

WellFormed(n) ==
    /\ n.page_header # <<>> /\ CleanLine(n.page_header)
    /\ \A tags \in {n.keywords, n.present, n.speakers} :
          \A i \in 1..Len(tags) : WellFormedTag(tags[i])
    /\ \A i \in 1..Len(n.sections) :
          /\ n.sections[i].header # <<>> /\ CleanLine(n.sections[i].header)
          /\ WellFormedData(n.sections[i].data)

\* C1 as claimed: every Note with a non-empty title, whatever its tags and
\* sections, is reproduced by create_note_from_markdown(to_markdown(n)) in
\* title, tag sequences and section set.
C1_RoundTripAnyNote ==
    (cpc = "decoded" /\ note.page_header # <<>>) => RoundTrip(note, decoded)

\* C1 as amended: the round trip holds for every Note whose title, tags and
\* headings are single lines without a blank at either end, whose tags hold
\* no comma, semicolon or colon, and whose section data has no line that is
\* indented, ends in a blank or starts with "# ", "## " or "<?".
C1_RoundTripWellFormed ==
    (cpc = "decoded" /\ WellFormed(note)) => RoundTrip(note, decoded)

C1_Witness ==
    /\ cpc = "decoded"
    /\ WellFormed(note)
    /\ Len(note.keywords) >= 1 /\ note.keywords[1] # <<>>
    /\ Len(note.sections) >= 1
    /\ note.sections[1].data # <<>>
    /\ RoundTrip(note, decoded)

-----------------------------------------------------------------------------
(* Claims C2 and C3: add_note and the (filename, timestamp) pairs *)

PairIndexed(d, filename, timestamp) ==
    <<filename, timestamp>> \in {<<d.notes[i].filename, d.notes[i].timestamp>> : i \in 1..Len(d.notes)}

FilenameIndexed(d, filename) ==
    filename \in {d.notes[i].filename : i \in 1..Len(d.notes)}

UniquePairs ==
    \A i, j \in 1..Len(db.notes) :
        (db.notes[i].filename = db.notes[j].filename
            /\ db.notes[i].timestamp = db.notes[j].timestamp) => i = j

OverwriteRefused ==
    \A a_note \in DbNoteInputs :
        (AddNote(a_note) /\ PairIndexed(db, a_note.filename, a_note.timestamp))
            => (ret'.raised = "OverwriteAttemptError" /\ db' = db)

\* C2: with add_note calls issued one at a time, no two rows of the notes
\* table share a (filename, timestamp), and an add_note of a pair that is
\* already there raises OverwriteAttemptError and leaves the notes table and
\* the three tag tables as they were.
C2_SequentialUniqueness == [](UniquePairs) /\ [][OverwriteRefused]_vars

C2_Witness ==
    /\ ret.op = "add_note"
    /\ ret.raised = "OverwriteAttemptError"
    /\ PairIndexed(db, ret.arg[1], ret.arg[2])
    /\ db.keywords # <<>>

NewTimestampAdded ==
    \A a_note \in DbNoteInputs :
        (/\ AddNote(a_note)
         /\ FilenameIndexed(db, a_note.filename)
         /\ ~PairIndexed(db, a_note.filename, a_note.timestamp))
            => /\ ret'.raised = ""
               /\ Len(db'.notes) = Len(db.notes) + 1
               /\ SubSeq(db'.notes, 1, Len(db.notes)) = db.notes
               /\ db'.notes[Len(db'.notes)].filename = a_note.filename
               /\ db'.notes[Len(db'.notes)].timestamp = a_note.timestamp

\* C3: add_note of a note whose filename is indexed but whose timestamp
\* differs from every indexed timestamp of that filename succeeds, adds
\* exactly one notes row and leaves every earlier row unchanged.
C3_NewTimestampSucceeds == [][NewTimestampAdded]_vars

C3_Witness ==
    /\ ret.op = "add_note"
    /\ ret.raised = ""
    /\ Len(db.notes) = 2
    /\ db.notes[1].filename = db.notes[2].filename
    /\ db.notes[1].timestamp # db.notes[2].timestamp
    /\ db.notes[2].filename = ret.arg[1]
    /\ db.notes[2].timestamp = ret.arg[2]

-----------------------------------------------------------------------------
(* Claim C8: what search_by_keyword returns *)

ReturnedPairs == {<<ret.value[i].filename, ret.value[i].timestamp>> : i \in 1..Len(ret.value)}

\* the indexed notes that own a keyword row whose name satisfies Match
Owners(Match(_)) ==
    {<<db.notes[i].filename, db.notes[i].timestamp>> : i \in
        {i \in 1..Len(db.notes) :
            \E k \in 1..Len(db.keywords) :
                db.keywords[k].note_id = db.notes[i].id /\ Match(db.keywords[k].name)}}

SameLetter(a, b) ==
    a = b \/ \E i \in 1..Len(UpperCase) : {a, b} = {UpperCase[i], LowerCase[i]}

\* seg, in which _ stands for any one character, lies in name at position p
SegmentAt(seg, name, p) ==
    /\ p + Len(seg) - 1 <= Len(name)
    /\ \A i \in 1..Len(seg) : seg[i] = "_" \/ SameLetter(seg[i], name[p + i - 1])

\* name begins with k, where the pieces of k between its % signs may be
\* separated in name by any run of characters
LoosePrefix(name, k) ==
    LET segs == Split(k, "%") IN
    \E pos \in [1..Len(segs) -> 1..(Len(name) + 1)] :
        /\ pos[1] = 1
        /\ \A j \in 1..Len(segs) : SegmentAt(segs[j], name, pos[j])
        /\ \A j \in 1..(Len(segs) - 1) : pos[j + 1] >= pos[j] + Len(segs[j])

-----------------------------------------------------------------------------
(* Claim C9: the order of the notes a read returns *)

\* C9 as claimed: find_all_notes, search_by_file and search_by_keyword
\* return their notes in descending timestamp order.
C9_DescendingTimestamps ==
    ret.op \in {"find_all_notes", "search_by_file", "search_by_keyword"} =>
        \A i, j \in 1..Len(ret.value) :
            i < j => ret.value[i].timestamp >= ret.value[j].timestamp

-----------------------------------------------------------------------------
(* Claim C10: the argument of search_by_file *)

\* the last path component without its .md extension
StemOfPath(p) ==
    LET name == PathName(p) IN
    IF EndsWith(name, <<".", "m", "d">>) THEN SubSeq(name, 1, Len(name) - 3) ELSE name

\* C10 as claimed: search_by_file(p/s.md) returns the notes that
\* search_by_file(s) returns, whatever the length of s.
C10_PathAndExtensionStripped ==
    ret.op = "search_by_file" => ret.value = search_by_file(db, StemOfPath(ret.arg))

-----------------------------------------------------------------------------
(* Claim C11: what search_by_file returns for a stem without extension *)

ExtensionLess(s) == "." \notin Chars(s) /\ "/" \notin Chars(s)

Contains(name, s) ==
    \E p \in 1..(Len(name) + 1) : StartsWith(SubSeq(name, p, Len(name)), s)

\* s lies somewhere in name when ASCII case is ignored, _ stands for any one
\* character and % for any run of characters
LooseContains(name, s) ==
    \E p \in 1..(Len(name) + 1) : LoosePrefix(SubSeq(name, p, Len(name)), s)

\* the indexed rows whose filename satisfies Match
FileRows(Match(_)) ==
    {<<db.notes[i].filename, db.notes[i].timestamp>> : i \in
        {i \in 1..Len(db.notes) : Match(db.notes[i].filename)}}

-----------------------------------------------------------------------------
(* Claim C12: the tag rows add_note writes *)

TagTables == {"keywords", "present", "speakers"}

\* the rows of a tag table that belong to a note
RowsOf(table, note_id) == {k \in 1..Len(table) : table[k].note_id = note_id}

TagRowsWritten ==
    \A a_note \in DbNoteInputs :
        (AddNote(a_note) /\ ret'.raised = "") =>
            \A T \in TagTables :
                LET i == ret'.value
                    values == {a_note[T][k] : k \in 1..Len(a_note[T])}
                IN /\ RowsOf(db[T], i) = {}
                   /\ SubSeq(db'[T], 1, Len(db[T])) = db[T]
                   /\ RowsOf(db'[T], i) = (Len(db[T]) + 1)..Len(db'[T])
                   /\ {db'[T][k].name : k \in RowsOf(db'[T], i)} = values
                   /\ Cardinality(RowsOf(db'[T], i)) = Cardinality(values)

\* C12: a successful add_note(n) returning id i leaves in each tag table,
\* for note_id i, exactly one row per distinct value of the corresponding
\* sequence of n, and neither reuses nor changes a row of another note.
C12_TagRowsPerNote == [][TagRowsWritten]_vars

\* the value b is held once for each of two notes though one repeats it,
\* and the first note's keywords a, Ab, a are held as two rows
C12_Witness ==
    /\ ret.op = "add_note"
    /\ ret.raised = ""
    /\ ret.value = 2
    /\ Len(db.present) = 2
    /\ db.present[1].name = <<"b">> /\ db.present[2].name = <<"b">>
    /\ db.present[1].note_id = 1 /\ db.present[2].note_id = 2
    /\ Cardinality(RowsOf(db.keywords, 1)) = 2
    /\ db.speakers # <<>>

-----------------------------------------------------------------------------
(* Claim C4: a scan run again over an unchanged directory *)

\* C4 as claimed: a do_scan that runs straight after a successful do_scan,
\* with no file created, modified or removed in between, reports an update
\* count of 0 and adds no row.
C4_SecondScanIdle ==
    (ret.op = "do_scan" /\ ret.value[4] = 2 /\ ret.value[1] = 0)
        => (ret.value[2] = 0 /\ ret.value[3] = 0)

-----------------------------------------------------------------------------
(* Claim C5: modification events of one file coalesce in the table *)

\* the times the table holds for a path
EntryTimes(table, path) == {table[i][2] : i \in {i \in 1..Len(table) : table[i][1] = path}}

OneEntryPerPath ==
    \A i, j \in 1..Len(monitored) : monitored[i][1] = monitored[j][1] => i = j

LastEventWins ==
    \A f \in FileNames :
        (OnModified(f) /\ valid_note(SrcPath(f)))
            => /\ EntryTimes(monitored', SrcPath(f)) = {Seconds}
               /\ Cardinality({i \in 1..Len(monitored') : monitored'[i][1] = SrcPath(f)}) = 1

OnlyEventsRewrite ==
    \A f \in FileNames :
        EntryTimes(monitored', SrcPath(f)) # EntryTimes(monitored, SrcPath(f))
            => OnModified(f) \/ EntryTimes(monitored', SrcPath(f)) = {}

\* C5: the table never holds two entries for one path, a modification event
\* for a valid filename leaves exactly one entry for it, stamped with the
\* time of that event, and nothing but a later event or a removal changes
\* it; so k >= 1 events with no removal in between leave one entry with the
\* time of the last.
C5_DebounceCoalescing == [](OneEntryPerPath) /\ [][LastEventWins /\ OnlyEventsRewrite]_vars

C5_Witness ==
    /\ ret.op = "on_modified"
    /\ ret.value = <<TRUE>>
    /\ valid_note(ret.arg)
    /\ Seconds > 0
    /\ monitored = <<(<<ret.arg, Seconds>>)>>

-----------------------------------------------------------------------------
(* Claims C6 and C7: names that are never to be indexed *)

\* C6 as claimed: the index never holds a row for a file whose name begins
\* with the excluded stem "crap", whichever driver ran.
C6_NoExcludedStemRow ==
    \A i \in 1..Len(db.notes) : ~StartsWith(db.notes[i].filename, <<"c", "r", "a", "p">>)

\* C7 as claimed: a file whose name begins with # or .# or ends in ~ is
\* never decoded and stored, by scan or by watcher.
C7_NoLockOrBackupRow ==
    \A i \in 1..Len(db.notes) :
        /\ ~StartsWith(db.notes[i].filename, <<"#">>)
        /\ ~StartsWith(db.notes[i].filename, <<".", "#">>)
        /\ ~EndsWith(db.notes[i].filename, <<"~">>)

-----------------------------------------------------------------------------
(* Claim C13: a scan of a path that is not a directory *)

ScanOfInvalidDirectory ==
    (~dirValid /\ (WebUpdate \/ TerminalScan \/ InterruptScan)) =>
        /\ ret'.op = "do_scan"
        /\ ret'.value[1] = 1
        /\ ret'.value[2] = 0
        /\ ret'.value[5] = {}
        /\ db' = db

\* C13: when the notes directory does not exist or is not a directory the
\* scan returns failure with an update count of 0, opens no file and leaves
\* the notes and tag tables as they were.
C13_InvalidDirectoryFailsFast == [][ScanOfInvalidDirectory]_vars

\* a failed scan of a missing directory that, were it there, holds a
\* readable note the index lacks
C13_Witness ==
    /\ ~dirValid
    /\ ret.op = "do_scan"
    /\ ret.value[1] = 1
    /\ unreadable = {}
    /\ \E f \in FileNames :
          /\ files[f] # 0
          /\ EndsWith(f, <<".", "m", "d">>)
          /\ \A i \in 1..Len(db.notes) : db.notes[i].filename # f

-----------------------------------------------------------------------------
(* Claim C14: the scan the watcher owes its pending notes when it stops *)

\* C14 as claimed: when the watcher has been interrupted and ends, every
\* file that was pending at the interrupt is in the index with the
\* modification time it has on disk.
C14_PendingIndexedAtExit ==
    ret.op = "watcher_interrupt" =>
        \A i \in 1..Len(ret.arg) :
            LET name == PathName(ret.arg[i]) IN
            files[name] # 0 => PairIndexed(db, name, files[name])

-----------------------------------------------------------------------------
(* Claim C15: aged entries leave the table *)

InTable(table, path) == \E i \in 1..Len(table) : table[i][1] = path

\* the table of the running watcher holds path with a quiet time above the
\* threshold
AgedEntry(path) ==
    /\ wpc = "running"
    /\ InTable(monitored, path)
    /\ Seconds - get_timestamp(monitored, path) > DATABASE_UPDATE_TIME_DELTA

\* when the loop over aged_notes moves past a note and the process lives on,
\* the table no longer holds that note
HandledNoteLeaves ==
    (sweep.aged # <<>> /\ sweep'.aged # sweep.aged /\ wpc' = "running")
        => ~InTable(monitored', Head(sweep.aged))

-----------------------------------------------------------------------------
(* Claim C16: a file the sweep cannot read *)

CannotBeRead(name) == files[name] = 0 \/ name \in unreadable

UnreadableEndsWatcher ==
    (/\ wpc = "running"
     /\ sweep.pc = "store"
     /\ CannotBeRead(PathName(Head(sweep.aged)))
     /\ sweep' # sweep)
        => /\ wpc' = "off"
           /\ ret'.op = "process_file"
           /\ ret'.raised = "IOError"
           /\ ret'.value[1] = 1
           /\ db' = db

\* C16: when the sweep comes to decode an aged note whose file cannot be
\* read or is gone, the watcher process ends with exit status 1: nothing is
\* stored for that file, and the aged notes after it are not handled.
C16_UnreadableIsFatal == [][UnreadableEndsWatcher]_vars

\* the watcher has ended on an unreadable note while a readable aged note
\* that the index lacks was still to be handled
C16_Witness ==
    /\ wpc = "off"
    /\ ret.op = "process_file"
    /\ ret.raised = "IOError"
    /\ PathName(ret.arg) \in unreadable
    /\ ret.value[2] # <<>>
    /\ LET name == PathName(ret.value[2][1]) IN
       /\ ~CannotBeRead(name)
       /\ ~PairIndexed(db, name, files[name])

-----------------------------------------------------------------------------
(* Claim C20: the table between the observer thread and the main thread *)

\* the main thread is inside the for loop of notes_older_than, or has read
\* the timestamp of an aged note and not yet dropped the note
SweepHoldsTable == sweep.pc \in {"iter", "store", "drop"}

CallbackWaitsForSweep ==
    \A f \in SweepNames :
        (OnModified(f) /\ monitored' # monitored) => ~SweepHoldsTable

\* C20 as claimed: the callback never inserts or refreshes an entry while
\* the sweep iterates the table or is between reading an entry's timestamp
\* and removing that entry.
C20_TableUnderOneLock == [][CallbackWaitsForSweep]_vars

-----------------------------------------------------------------------------
(* Claim C17: the decoder returns a Note for every text *)

\* a str made of characters of the text
TextOf(s, text) == DOMAIN s = 1..Len(s) /\ Chars(s) \subseteq Chars(text)

TextsOf(items, text) ==
    DOMAIN items = 1..Len(items) /\ \A i \in 1..Len(items) : TextOf(items[i], text)

\* the stripped lines of a text
StrippedLines(text) == {Strip(Split(text, NL)[i]) : i \in 1..Len(Split(text, NL))}

\* C17: for every text create_note_from_markdown returns a Note, whose
\* title, tags, headings and section data are made of the text; a text
\* without a title line gives the empty title and a text without a heading
\* line gives no section.
C17_DecoderTotal ==
    cpc = "decoded" =>
        /\ TextOf(decoded.page_header, markdown)
        /\ TextsOf(decoded.keywords, markdown)
        /\ TextsOf(decoded.present, markdown)
        /\ TextsOf(decoded.speakers, markdown)
        /\ \A i \in 1..Len(decoded.sections) :
              /\ TextOf(decoded.sections[i].header, markdown)
              /\ TextOf(decoded.sections[i].data, markdown)
        /\ (\A line \in StrippedLines(markdown) : ~StartsWith(line, <<"#", " ">>))
              => decoded.page_header = <<>>
        /\ (\A line \in StrippedLines(markdown) : ~StartsWith(line, <<"#", "#", " ">>))
              => decoded.sections = <<>>

\* a text with a partial metadata line and neither title nor heading is
\* decoded to the empty Note
C17_Witness ==
    /\ cpc = "decoded"
    /\ StartsWith(markdown, META_OPEN \o KEYWORD_WORD \o <<":">>)
    /\ ~EndsWith(markdown, META_CLOSE)
    /\ decoded = EmptyNote

-----------------------------------------------------------------------------
(* Claim C18: the date string the file-name heuristic derives *)

\* the items of the stem of a name, split at "-"
StemItems(name) == Split(PathStem(name), "-")

EightDigitItems(name) ==
    {i \in 1..Len(StemItems(name)) : IsNumeric(StemItems(name)[i]) /\ Len(StemItems(name)[i]) = 8}

\* the date string among the keywords of the last call of the heuristic
DerivedDate == IF IsNumeric(Head(StemItems(ret.arg))) THEN ret.value[1] ELSE ret.value[2]

TheMeetingName ==
    <<"2", "0", "2", "2", "-", "b", "o", "b", "-", "2", "0", "2", "2", "0", "2", "0", "1",
      "-", "m", "e", "e", "t", "i", "n", "g", ".", "m", "d">>

\* C18 as stated: for a stem with one eight-digit item among its
\* "-"-separated items, the derived date string is that item.
C18_EightDigitItemIsDate ==
    (ret.op = "extract_metadata_from_file_path" /\ Cardinality(EightDigitItems(ret.arg)) = 1)
        => \E i \in EightDigitItems(ret.arg) : DerivedDate = StemItems(ret.arg)[i]

\* C18 amended: for a stem with "-"-separated items the derived date string
\* is all its numeric items concatenated in order, "202220220201" for
\* 2022-bob-20220201-meeting.md; it is the eight-digit item when that item
\* is the only numeric one.
C18_NumericItemsConcatenated ==
    (ret.op = "extract_metadata_from_file_path" /\ "-" \in Chars(PathStem(ret.arg))) =>
        /\ DerivedDate = Join(SelectSeq(StemItems(ret.arg), IsNumeric), <<>>)
        /\ ret.arg = TheMeetingName =>
              DerivedDate = <<"2", "0", "2", "2", "2", "0", "2", "2", "0", "2", "0", "1">>
        /\ \A i \in EightDigitItems(ret.arg) :
              (\A j \in 1..Len(StemItems(ret.arg)) : IsNumeric(StemItems(ret.arg)[j]) => j = i)
                  => DerivedDate = StemItems(ret.arg)[i]

C18_Witness ==
    /\ ret.op = "extract_metadata_from_file_path"
    /\ ret.arg = TheMeetingName
    /\ Len(DerivedDate) = 12

-----------------------------------------------------------------------------
(* Claim C19: the date of a Note has eight digits *)

\* C19: the date of a constructed Note is eight digits: the first run of
\* eight digits of the file name when it has one, today's date otherwise.
C19_DateIsEightDigits ==
    ret.op = "Note" =>
        /\ Len(ret.value.date) = 8
        /\ IsNumeric(ret.value.date)
        /\ ret.value.date =
              IF parse_filename(ret.arg[1])[2] # <<>> THEN parse_filename(ret.arg[1])[2]
              ELSE FormatDate(ret.arg[2])

-----------------------------------------------------------------------------
(* Claim C21: the existence test and the insert of add_note are one atomic step *)

\* C21: whatever the interleaving of two add_note calls, the notes table
\* never holds two rows with the same filename and timestamp.
C21_NoDuplicateUnderInterleaving ==
    \A i, j \in 1..Len(db.notes) :
        (db.notes[i].filename = db.notes[j].filename
            /\ db.notes[i].timestamp = db.notes[j].timestamp) => i = j

-----------------------------------------------------------------------------
(* Claim C22: which files a scan decodes and hands to add_note *)

\* the rows of the notes table that a file name owns
RowsOfFile(f) == {i \in 1..Len(db.notes) : db.notes[i].filename = f}

\* the timestamp of the row of a file name that was indexed last
LastIndexed(f) == db.notes[CHOOSE i \in RowsOfFile(f) : \A j \in RowsOfFile(f) : j <= i].timestamp

\* the note files of the directory that are not excluded and have no row,
\* or are strictly newer than their last row
StaleFiles(exclude) ==
    {f \in DOMAIN files :
        /\ files[f] # 0
        /\ EndsWith(f, <<".", "m", "d">>)
        /\ \A i \in 1..Len(exclude) : ~StartsWith(f, exclude[i])
        /\ (RowsOfFile(f) = {} \/ files[f] > LastIndexed(f))}

ScanTakesStaleFiles ==
    (ret'.op = "do_scan" /\ dirValid) =>
        /\ ret'.value[5] \subseteq StaleFiles(ret'.arg)
        /\ ret'.value[1] = 0 => ret'.value[5] = StaleFiles(ret'.arg)
        /\ ret'.value[1] # 0 => ret'.value[5] \cap unreadable # {}
        /\ \A i \in (Len(db.notes) + 1)..Len(db'.notes) :
              db'.notes[i].filename \in ret'.value[5]

\* C22: a scan decodes and hands to add_note exactly the non-excluded note
\* files that have no row or are strictly newer than the last indexed
\* timestamp of their name, up to the unreadable file that stops it; a file
\* as old as or older than that timestamp is not opened and gets no row.
C22_StaleFilesOnly == [][ScanTakesStaleFiles]_vars

\* a completed scan that stored a file and left alone another note file,
\* which is as old as its row
C22_Witness ==
    /\ ret.op = "do_scan"
    /\ ret.value[1] = 0
    /\ ret.value[3] > 0
    /\ \E f \in DOMAIN files :
          /\ f \notin ret.value[5]
          /\ RowsOfFile(f) # {}
          /\ files[f] = LastIndexed(f)

-----------------------------------------------------------------------------
(* Claim C23: what a scan does when one file fails *)

\* the places in the listing of the files the scan cannot read
UnreadableAt(todo) == {k \in 1..Len(todo) : todo[k] \in unreadable}

\* the places in the listing of the files the scan has to open and cannot read
FailingAt(todo, exclude) ==
    {k \in 1..Len(todo) : todo[k] \in unreadable \cap StaleFiles(exclude)}

\* the first of a non-empty set of places
First(places) == CHOOSE k \in places : \A j \in places : k <= j

\* the file names of the rows a step adds to the notes table
AddedNames == {db'.notes[i].filename : i \in (Len(db.notes) + 1)..Len(db'.notes)}

\* the index holds the row that storing the file would insert
PairStored(f) == \E i \in RowsOfFile(f) : db.notes[i].timestamp = files[f]

\* a scan without a file it cannot read: a refused add_note does not end it
OverwriteIsSkipped(todo, exclude) ==
    /\ ret'.value[1] = 0
    /\ ret'.value[5] = StaleFiles(exclude)
    /\ AddedNames = {f \in StaleFiles(exclude) : ~PairStored(f)}

\* a scan that meets a file it cannot read stops there
StopsAt(k, todo, exclude) ==
    /\ ret'.value[1] = 1
    /\ ret'.value[5] = {todo[i] : i \in 1..k} \cap StaleFiles(exclude)
    /\ AddedNames = {todo[i] : i \in 1..(k - 1)} \cap {f \in StaleFiles(exclude) : ~PairStored(f)}

ScanStopsAtAnyUnreadable ==
    (ret'.op = "do_scan" /\ dirValid) =>
        IF UnreadableAt(ret'.value[6]) = {}
        THEN OverwriteIsSkipped(ret'.value[6], ret'.arg)
        ELSE StopsAt(First(UnreadableAt(ret'.value[6])), ret'.value[6], ret'.arg)

ScanStopsAtOpenedUnreadable ==
    (ret'.op = "do_scan" /\ dirValid) =>
        IF FailingAt(ret'.value[6], ret'.arg) = {}
        THEN OverwriteIsSkipped(ret'.value[6], ret'.arg)
        ELSE StopsAt(First(FailingAt(ret'.value[6], ret'.arg)), ret'.value[6], ret'.arg)

-----------------------------------------------------------------------------
(* Claim C24: the update count a scan returns *)

\* C24 as stated: the count a scan returns is the number of rows it added
\* to the notes table, whether add_note refused a file or an unreadable file
\* ended the scan.
C24_CountIsRowsAdded ==
    ret.op = "do_scan" => ret.value[2] = ret.value[3]

-----------------------------------------------------------------------------
(* Claim C25: created and modified events both reach the table *)

EventEntersTable ==
    (ret'.op \in {"on_created", "on_modified"} /\ valid_note(ret'.arg)) =>
        \E i \in 1..Len(monitored') : monitored'[i] = <<ret'.arg, Seconds>>

\* C25 as stated: after a created event and after a modified event for a
\* valid note filename the table holds that filename with the time of the
\* event.
C25_CreatedAndModifiedEnter == [][EventEntersTable]_vars

-----------------------------------------------------------------------------
(* Claims C26, C27 and C28: the sweep between its list of aged notes and
   drop_note *)

\* the step of the main loop in which process_file has stored the aged note
StoreStep == sweep.pc = "store" /\ sweep'.pc = "drop"

StoredAfterQuiet ==
    StoreStep =>
        Seconds - get_timestamp(monitored, Head(sweep.aged)) > DATABASE_UPDATE_TIME_DELTA

\* C26 as stated: when the sweep stores a file, more than the quiet
\* threshold has passed since the last event the table holds for it.
C26_StoredOnlyAfterQuiet == [][StoredAfterQuiet]_vars

\* the index holds the row process_file would insert for the aged note
AgedPairStored ==
    already_stored(db, PathName(Head(sweep.aged)), files[PathName(Head(sweep.aged))])

CheckSeesStoredPair ==
    /\ (sweep.pc = "check" /\ sweep'.pc # "check" /\ wpc' = "running" /\ AgedPairStored) =>
          /\ sweep'.pc # "store"
          /\ \A i \in 1..Len(monitored') : monitored'[i][1] # Head(sweep.aged)
    /\ StoreStep => ~AgedPairStored

\* C27 as stated: when the index holds the row that storing the aged file
\* would insert, the sweep's check is true, the entry is dropped and
\* process_file is not called; the sweep never stores a pair the index holds.
C27_CheckMatchesStore == [][CheckSeesStoredPair]_vars

EventDuringStoreKept ==
    (sweep.pc = "drop" /\ sweep'.pc # "drop" /\ wpc' = "running"
        /\ ret.op = "on_modified" /\ ret.arg = Head(sweep.aged)) =>
        \E i \in 1..Len(monitored') :
            monitored'[i] = <<Head(sweep.aged), get_timestamp(monitored, Head(sweep.aged))>>

\* C28 as stated: an event for a file that is delivered after the sweep has
\* stored the file and before it drops the entry leaves the file in the
\* table, with the time of that event, when the sweep has dropped.
C28_EventSurvivesDrop == [][EventDuringStoreKept]_vars

-----------------------------------------------------------------------------
(* Claim C29: what the handling of an event changes *)

EventFrame ==
    ret'.op \in {"on_created", "on_modified"} =>
        /\ db' = db
        /\ files' = files
        /\ unreadable' = unreadable
        /\ \A i \in 1..Len(monitored) :
              monitored[i][1] # ret'.arg => \E j \in 1..Len(monitored') : monitored'[j] = monitored[i]
        /\ \A j \in 1..Len(monitored') :
              monitored'[j][1] # ret'.arg => \E i \in 1..Len(monitored) : monitored[i] = monitored'[j]
        /\ ~valid_note(ret'.arg) => monitored' = monitored

\* C29: the handling of an event leaves the notes and tag tables and the
\* files as they were and changes no table entry but that of the event's
\* filename; an event for an invalid filename changes no entry at all.
C29_EventChangesOneEntry == [][EventFrame]_vars

\* an event for an invalid filename has found two entries and left them
C29_Witness ==
    /\ ret.op = "on_modified"
    /\ ~valid_note(ret.arg)
    /\ Len(monitored) = 2

-----------------------------------------------------------------------------
(* Claim C30: the tags the decoder takes from a metadata line *)

\* C30 as stated: no tag the decoder extracts from a metadata line begins
\* or ends with whitespace, whatever the spacing around the separators.
C30_TagsAreTrimmed ==
    cpc = "decoded" =>
        /\ \A i \in 1..Len(decoded.keywords) : Strip(decoded.keywords[i]) = decoded.keywords[i]
        /\ \A i \in 1..Len(decoded.speakers) : Strip(decoded.speakers[i]) = decoded.speakers[i]
        /\ \A i \in 1..Len(decoded.present) : Strip(decoded.present[i]) = decoded.present[i]

-----------------------------------------------------------------------------
(* C31: metadata lines append.                                              *)

\* The texts of several metadata lines given to the decoder: at most
\* MaxTagLines lines, each a title or a line of one of the three tags.
MaxTagLines == 3

TagLineLists == {<<" ", "a">>, <<" ", "a", ",", " ", "b">>, <<"b", ";", "a">>}

TagLineChoices ==
    {META_OPEN \o <<" ">> \o word \o <<":">> \o list \o <<" ">> \o META_CLOSE :
        word \in {KEYWORD_WORD, SPEAKER_WORD, PRESENT_WORD}, list \in TagLineLists}
    \cup {<<"#", " ", "t">>}

TagLinesInputs ==
    {Join(ls, <<NL>>) :
        ls \in UNION {[1..k -> TagLineChoices] : k \in 1..MaxTagLines}}

\* the decoder given several metadata lines
TagLinesInit ==
    /\ note = EmptyNote
    /\ markdown \in TagLinesInputs
    /\ decoded = EmptyNote
    /\ cpc = "encoded"
    /\ DbIdle
    /\ SyncIdle

SpecTagLines == TagLinesInit /\ [][Decode]_vars

TagsOf(n, tag) ==
    CASE tag = "keywords" -> n.keywords
      [] tag = "present" -> n.present
      [] tag = "speakers" -> n.speakers

\* the lists that the lines of a text give for a tag, each line decoded on its
\* own, concatenated in line order
RECURSIVE LineTags(_, _)
LineTags(lines, tag) ==
    IF lines = <<>> THEN <<>>
    ELSE TagsOf(create_note_from_markdown(Head(lines)), tag)
            \o LineTags(Tail(lines), tag)

\* C31: the sequence decoded for a tag is the concatenation, in line order, of
\* the lists of all the lines of the text for that tag; a later line replaces
\* nothing and a line for another tag adds nothing.
C31_MetadataLinesAppend ==
    cpc = "decoded" =>
        \A tag \in {"keywords", "present", "speakers"} :
            TagsOf(decoded, tag) = LineTags(Split(markdown, NL), tag)

\* two keyword lines around a speakers line have been decoded
C31_Witness ==
    /\ cpc = "decoded"
    /\ LET lines == Split(markdown, NL) IN
        /\ Len(lines) = 3
        /\ PatternMatches(lines[1], KEYWORD_WORD, TRUE)
        /\ PatternMatches(lines[2], SPEAKER_WORD, TRUE)
        /\ PatternMatches(lines[3], KEYWORD_WORD, TRUE)
    /\ Len(decoded.keywords) = 4
    /\ Len(decoded.speakers) = 1

-----------------------------------------------------------------------------
(* C32: the body of a section.                                              *)

\* The texts of sections given to the decoder: a heading "## a" followed by
\* at most MaxBodyAtoms atoms, an atom being a character, an end of line or a
\* second heading on a line of its own.
MaxBodyAtoms == 5

BodyAtoms == {<<"a">>, <<" ">>, <<NL>>, <<NL, "#", "#", " ", "b", NL>>}

SectionTextInputs ==
    {<<"#", "#", " ", "a", NL>> \o body :
        body \in UNION {StrN(BodyAtoms, k) : k \in 0..MaxBodyAtoms}}

\* the decoder given a text of sections
SectionTextInit ==
    /\ note = EmptyNote
    /\ markdown \in SectionTextInputs
    /\ decoded = EmptyNote
    /\ cpc = "encoded"
    /\ DbIdle
    /\ SyncIdle

SpecSectionText == SectionTextInit /\ [][Decode]_vars

IsHeadingLine(l) == StartsWith(Strip(l), <<"#", "#", " ">>)

\* lines[a] is the heading of a block that ends with lines[b]
IsBlock(lines, a, b) ==
    /\ IsHeadingLine(lines[a])
    /\ \A k \in (a + 1)..b : ~IsHeadingLine(lines[k])
    /\ b = Len(lines) \/ IsHeadingLine(lines[b + 1])

\* C32: the data of a decoded section is the lines between its heading and the
\* next heading (or the end of the text) as they stand in the text, joined in
\* order, less the whitespace around the whole block.
C32_SectionBodyVerbatim ==
    cpc = "decoded" =>
        LET lines == Split(markdown, NL) IN
        \A i \in 1..Len(decoded.sections) :
            \E a \in 1..Len(lines), b \in 1..Len(lines) :
                /\ a <= b
                /\ IsBlock(lines, a, b)
                /\ decoded.sections[i].header = Strip(From(Strip(lines[a]), 2))
                /\ decoded.sections[i].data =
                        Strip(Join(SubSeq(lines, a + 1, b), <<NL>>))

-----------------------------------------------------------------------------
(* C33: the body accessor.                                                  *)

\* body_lines of create_note_from_markdown, joined: the value the decoder
\* hands to the body setter, which stores it in _body; nothing reads _body
body_lines(text) ==
    LET lines == Split(text, NL)
    IN Join([i \in 1..Len(lines) |-> Strip(lines[i])], <<NL>>)

\* Note.body, the property's getter
Note_body(n) == to_markdown(n)

\* a caller reads the body of the decoded note
ReadBody ==
    /\ cpc = "decoded"
    /\ ret = NoCall
    /\ ret' = Step("body", markdown, Note_body(decoded))
    /\ UNCHANGED <<codecVars, db, calls, syncVars>>

\* the decoder given any text, and a reader of the body
SpecBody == DecodeInit /\ [][Decode \/ ReadBody]_vars

\* C33: the body accessor of the note decoded from a text returns the lines of
\* that text, every one of them, in order and as they stand.
C33_BodyIsTheText ==
    ret.op = "body" => ret.value = Join(Split(ret.arg, NL), <<NL>>)

-----------------------------------------------------------------------------
(* C34, C35: a note that is edited after it was decoded.                    *)

\* Note.remove_section
remove_section(n, heading) ==
    IF Len(n.sections) = 0 THEN n
    ELSE IF HasSection(n.sections, heading)
    THEN [n EXCEPT !.sections = SelectSeq(@, LAMBDA x : x.header # heading)]
    ELSE n

\* the loop of copy_note: create_section for every section of the other note
RECURSIVE CopySections(_, _)
CopySections(n, sections) ==
    IF sections = <<>> THEN n
    ELSE CopySections(create_section(n, Head(sections).header, Head(sections).data),
                      Tail(sections))

\* Note.copy_note; the last statement hands other.body to the body setter,
\* which stores it in _body, a field nothing reads
copy_note(n, other) ==
    CopySections([n EXCEPT !.page_header = other.page_header,
                           !.keywords = other.keywords,
                           !.present = other.present,
                           !.speakers = other.speakers],
                 other.sections)

\* Note.from_markdown
from_markdown(n, text) == copy_note(n, create_note_from_markdown(text))

\* The headings, data and texts given to the edited note.
EditHeadings == {<<>>, <<"a">>, <<"b">>, <<"c">>}

EditData == {<<"x">>, <<" ", "y", NL>>}

EditTexts ==
    {<<"#", " ", "u">>,
     <<"#", " ", "u", NL, "#", "#", " ", "a", NL, "x">>,
     <<"#", " ", "v", NL>> \o MetaLine(KEYWORD_WORD \o <<"s">>, <<(<<"k">>)>>)
        \o <<NL, "#", "#", " ", "c", NL, "y", NL, "#", "#", " ", "a", NL, "x",
             NL, "#", "#", " ", "c", NL, "z">>}

CreateSection(heading, data) ==
    /\ cpc = "edit"
    /\ note' = create_section(note, heading, data)
    /\ ret' = Step("create_section", <<heading, data>>, <<>>)
    /\ UNCHANGED <<markdown, decoded, cpc, db, calls, syncVars>>

RemoveSection(heading) ==
    /\ cpc = "edit"
    /\ note' = remove_section(note, heading)
    /\ ret' = Step("remove_section", <<heading>>, <<>>)
    /\ UNCHANGED <<markdown, decoded, cpc, db, calls, syncVars>>

FromMarkdown(text) ==
    /\ cpc = "edit"
    /\ note' = from_markdown(note, text)
    /\ ret' = Step("from_markdown", text, <<>>)
    /\ UNCHANGED <<markdown, decoded, cpc, db, calls, syncVars>>

EditInit ==
    /\ note \in {create_note_from_markdown(t) : t \in EditTexts}
    /\ markdown = <<>>
    /\ decoded = EmptyNote
    /\ cpc = "edit"
    /\ DbIdle
    /\ SyncIdle

EditNext ==
    \/ \E h \in EditHeadings, d \in EditData : CreateSection(h, d)
    \/ \E h \in EditHeadings : RemoveSection(h)
    \/ \E t \in EditTexts : FromMarkdown(t)

SpecEdit == EditInit /\ [][EditNext]_vars

Headers(n) == [i \in 1..Len(n.sections) |-> n.sections[i].header]

HeaderSet(n) == {n.sections[i].header : i \in 1..Len(n.sections)}

DataOf(n, h) ==
    (CHOOSE x \in {n.sections[i] : i \in 1..Len(n.sections)} : x.header = h).data

Before(n, x, y) ==
    \E i, j \in 1..Len(n.sections) :
        i < j /\ n.sections[i].header = x /\ n.sections[j].header = y

\* the headings of the sections that encode emits, in the order of the text
EmittedHeadings(n) ==
    LET heads == SelectSeq(Split(to_markdown(n), NL),
                           LAMBDA l : StartsWith(l, <<"#", "#", " ">>))
    IN [i \in 1..Len(heads) |-> From(heads[i], 3)]

UniqueHeadings(n) ==
    \A i, j \in 1..Len(n.sections) :
        n.sections[i].header = n.sections[j].header => i = j

\* a create_section or remove_section call for heading h keeps the order and
\* the data of every other section
OthersKept(h) ==
    /\ \A x \in (HeaderSet(note) \cap HeaderSet(note')) \ {h} :
            DataOf(note', x) = DataOf(note, x)
    /\ \A x, y \in HeaderSet(note) \cap HeaderSet(note') :
            Before(note', x, y) <=> Before(note, x, y)

CreateKeepsOrder ==
    ret'.op = "create_section" =>
        LET h == ret'.arg[1] IN
        IF h = <<>> THEN note' = note
        ELSE /\ HeaderSet(note') = HeaderSet(note) \cup {h}
             /\ DataOf(note', h) = Strip(ret'.arg[2])
             /\ h \notin HeaderSet(note) => Headers(note')[Len(note'.sections)] = h
             /\ OthersKept(h)

RemoveKeepsOrder ==
    ret'.op = "remove_section" =>
        LET h == ret'.arg[1] IN
        /\ HeaderSet(note') = HeaderSet(note) \ {h}
        /\ OthersKept(h)

\* C34: the headings of a decoded and then edited note are unique, encode
\* emits the sections in the order they were inserted in, and a call that
\* re-creates a section replaces its data and moves no section and changes no
\* other data; a new section goes last, a removal keeps the others in order.
C34_SectionOrdering ==
    /\ [](UniqueHeadings(note) /\ EmittedHeadings(note) = Headers(note))
    /\ [][CreateKeepsOrder /\ RemoveKeepsOrder]_vars

\* the first of three sections has just been created again
C34_Witness ==
    /\ ret.op = "create_section"
    /\ Len(note.sections) = 3
    /\ note.sections[1].header = ret.arg[1]
    /\ note.sections[1].data = <<"y">>

\* C35: after from_markdown(t) the title, the three tag sequences and the set
\* of sections of the note are those of the note decoded from t; no section
\* that t does not contain survives the call.
C35_FromMarkdownReplaces ==
    [][ret'.op = "from_markdown" =>
          LET d == create_note_from_markdown(ret'.arg) IN
          /\ note'.page_header = d.page_header
          /\ note'.keywords = d.keywords
          /\ note'.present = d.present
          /\ note'.speakers = d.speakers
          /\ SectionSet(note') = SectionSet(d)]_vars

-----------------------------------------------------------------------------
(* C36: the exclusion argument of do_scan.                                  *)

\* process_files, "if isinstance(exclude_files, str): exclude_files =
\* list(exclude_files)": the list of a str is the list of its characters
list_of_str(exclude_files) == [i \in 1..Len(exclude_files) |-> <<exclude_files[i]>>]

\* The exclusions given to do_scan as a list and as a str.
ExcludeLists == {<<>>, <<(<<"c", "r", "a", "p">>)>>, <<(<<"#">>), (<<"c", "r", "a", "p">>)>>}

ExcludeStrings == {<<"c", "r", "a", "p">>, <<"#", "d">>}

\* do_scan(exclude=[...])
ScanWithList(exclude) ==
    /\ DoScan(exclude)
    /\ UNCHANGED <<files, unreadable, dirValid, monitored, now, sweep, wpc, spc,
                   codecVars, calls>>

\* do_scan(exclude="..."); the step records the stem that was given
ScanWithString(exclude) ==
    /\ \E todo \in GlobMd(files) :
          LET r == process_files(db, dirValid, todo, files, unreadable,
                                 list_of_str(exclude)) IN
          /\ Len(r.db.notes) <= MaxIndexRows
          /\ db' = r.db
          /\ ret' = [ScanStep(<<exclude>>, r, todo) EXCEPT !.op = "do_scan_str"]
    /\ UNCHANGED <<files, unreadable, dirValid, monitored, now, sweep, wpc, spc,
                   codecVars, calls>>

\* callers of do_scan beside the users of the directory
ScanArgNext ==
    \/ DirectoryNext
    \/ \E exclude \in ExcludeLists : ScanWithList(exclude)
    \/ \E exclude \in ExcludeStrings : ScanWithString(exclude)

SpecScanArg == SyncInit /\ [][ScanArgNext]_vars

\* C36: a scan that is given its exclusion as a list of stems or as one stem
\* in a str omits exactly the files whose name starts with a given stem and
\* takes every other note file that has no row or is newer than its row.
C36_ExclusionArgument ==
    [][(ret'.op \in {"do_scan", "do_scan_str"} /\ ret'.value[1] = 0) =>
          ret'.value[5] = StaleFiles(ret'.arg)]_vars

-----------------------------------------------------------------------------
(* C37: the index after a scan that succeeded.                              *)

\* the note files of the directory that the scan was not told to exclude
ScannedFiles(exclude) ==
    {f \in DOMAIN files :
        /\ files[f] # 0
        /\ EndsWith(f, <<".", "m", "d">>)
        /\ \A i \in 1..Len(exclude) : ~StartsWith(f, exclude[i])}

ScanLeavesIndexConsistent ==
    (ret'.op = "do_scan" /\ ret'.value[1] = 0) =>
        \A f \in ScannedFiles(ret'.arg) :
            /\ \E i \in 1..Len(db'.notes) :
                  /\ db'.notes[i].filename = f
                  /\ db'.notes[i].timestamp >= files[f]
            /\ (\A i \in RowsOfFile(f) : db.notes[i].timestamp < files[f]) =>
                  \E i \in 1..Len(db'.notes) :
                      /\ db'.notes[i].filename = f
                      /\ db'.notes[i].timestamp = files[f]

\* C37: after a scan that returned success every note file of the directory
\* that was not excluded has a row with a timestamp of at least its mtime, and
\* a file newer than all the rows it had before the scan has the row of its
\* name and mtime.
C37_PostScanConsistency == [][ScanLeavesIndexConsistent]_vars

\* a successful scan has stored a newer version of a file beside its old row
\* and left a file alone whose row is as new as the file
C37_Witness ==
    /\ ret.op = "do_scan"
    /\ ret.value[1] = 0
    /\ \E f \in ret.value[5] : Cardinality(RowsOfFile(f)) >= 2 /\ PairStored(f)
    /\ \E g \in ScannedFiles(ret.arg) \ ret.value[5] : PairStored(g)

-----------------------------------------------------------------------------
(* C38: a note that is created or modified while the watcher runs.          *)

\* the two threads of the watcher with both kinds of events
AllEventsNext ==
    \/ ThreadsNext
    \/ \E f \in SweepNames : OnCreated(f)

\* the main loop runs on while the process lives, and time passes
SpecAllEventsFair ==
    /\ SweepInit
    /\ [][AllEventsNext]_vars
    /\ WF_sweep(MainThreadMoves)
    /\ WF_now(Tick)

\* the running watcher has just been told, at second 0, of a note file
EventSeen(f) ==
    /\ wpc = "running"
    /\ Seconds = 0
    /\ ret.op \in {"on_created", "on_modified"}
    /\ ret.arg = SrcPath(f)
    /\ valid_note(SrcPath(f))
    /\ files[f] # 0
    /\ f \notin unreadable

\* the index holds the row of the file and the table has let go of it
IndexedAndDropped(f) ==
    /\ files[f] # 0
    /\ PairStored(f)
    /\ ~InTable(monitored, SrcPath(f))

\* the file was touched or removed, cannot be read, a later event has been
\* recorded for it, or the watcher has stopped
NoLongerDue(f, mtime) ==
    \/ files[f] # mtime
    \/ f \in unreadable
    \/ wpc # "running"
    \/ InTable(monitored, SrcPath(f)) /\ get_timestamp(monitored, SrcPath(f)) # 0

\* C38: a valid note file that is created or modified while the watcher runs
\* and is then left alone and readable is in the end indexed with its name
\* and mtime and dropped from the table, as long as the watcher runs on.
C38_EventuallyIndexed ==
    \A f \in SweepNames : \A mtime \in 1..MaxMtime :
        (EventSeen(f) /\ files[f] = mtime)
            ~> (IndexedAndDropped(f) \/ NoLongerDue(f, mtime))

=============================================================================
